---------------------------- MODULE Spec2Model ----------------------------
(***************************************************************************)
(* A model of the remote desktop streaming engine:                         *)
(*   - RawSocketProtocol (raw_transport.py): length-framed transport        *)
(*   - RawControlleeProtocol (raw_protocols.py): capture worker, config     *)
(*   - ControlleeProtocol (controllee.py): the Twisted controllee           *)
(*   - RawControllerProtocol / PyQt5ControllerProtocol: tile reconstruction *)
(***************************************************************************)
EXTENDS Integers, Sequences, FiniteSets, TLC

(***************************************************************************)
(* Bounds of the model                                                     *)
(***************************************************************************)
\* number of write_message calls explored by the framing specification
MaxMsgs == 2
\* longest payload (in bytes) handed to write_message
MaxPayloadLen == 1
\* clock ticks per second: the resolution of time.time() in the model
TicksPerSecond == 120
\* how many ticks the clock advances in the fine-grained specifications
MaxTicks == 2
\* extent of the captured frame, in blocks of BlockPx pixels
ScreenBlocksX == 4
ScreenBlocksY == 1
\* delayed calls of sendScreenshot pending at a time
MaxTimers == 2
\* the coarse clock of the resync specification: seconds per step, and steps
ElapseSeconds == 20
MaxElapses == 3
\* the clock of the load specification: ticks between frames, and in all
LoadGapTicks == 3
MaxLoadTicks == 15
\* messages of the controller queued or on their way at a time
MaxInFlight == 4
\* calls of send_command explored by the input specification
MaxCommands == 3
\* extent of the wide frame, in blocks: more than twenty tiles of the least size
WideBlocksX == 21
\* NET_FEEDBACK messages handled in the specification of the encoding quality
MaxQualityFeedbacks == 2
\* peers that connect to the listening server
MaxPeers == 2
\* length of a payload longer than one chunk of flush
LargePayloadLen == 300000

(***************************************************************************)
(* State                                                                   *)
(***************************************************************************)
VARIABLES
    \* ---- RawSocketProtocol (one connection, sender and receiver ends) ----
    running,          \* self.running of the protocol instance
    message_handler,  \* TRUE when self.message_handler is set
    send_queue,       \* self.send_queue (FIFO)
    wire,             \* bytes written by sendall and not yet returned by recv
    receive_buffer,   \* self.receive_buffer of the receiving end
    handled,          \* payloads passed to the receiver's message handler
    written,          \* payloads write_message put on the queue (history)
    offered,          \* payloads write_message was called with (history)
    \* ---- the controllee (RawControlleeProtocol / ControlleeProtocol) ----
    impl,                      \* "raw" or "twisted": the class get_transport set up
    config,                    \* self.config (a dict: keys present -> value)
    screenshot_interval,       \* self.screenshot_interval, the rational <<num, den>>
    last_screenshot_time,      \* self.last_screenshot_time (ticks)
    screenshot_lock,           \* holder of self.screenshot_lock, or NoThread
    is_processing_screenshot,  \* self.is_processing_screenshot
    current_quality_offset,    \* self.network_stats['current_quality_offset']
    fps_history,               \* self.network_stats['fps_history'], in tenths of a frame
    commands,                  \* the calls of self.commands.addCommand, in order
    shouldRun,                 \* self.commands.shouldRun
    tile_size,                 \* self.tile_size
    last_tiles,                \* self.last_tiles (grid key -> fingerprint)
    tile_timestamps,           \* self.tile_timestamps (grid key -> ticks)
    static_tile_threshold,     \* self.static_tile_threshold (ticks)
    \* ---- threads of the raw controllee ----
    cap_pc,           \* position of the capture worker (_screenshot_loop)
    cap_time,         \* its local current_time
    cap_mode,         \* the method its mode selection chose
    cap_raised,       \* an exception is propagating out of the capture
    recv_state,       \* _receive_worker: "running" or "exited"
    send_state,       \* _send_worker: "running" or "exited"
    \* ---- connection and orchestration ----
    role,             \* "server" or "client": the object get_transport returned
    factory_running,  \* self.running of that object
    socket_closed,    \* the connection socket was closed locally
    peer_closed,      \* the peer closed the connection
    stop_called,      \* stop() was called on the object get_transport returned
    now,              \* time.time(), in ticks
    \* ---- the controller at the other end (RawControllerProtocol / PyQt5) ----
    controller,       \* "raw" or "pyqt5"; "none" while the peer is left out
    tile_cache,       \* self.tile_cache (pixel origin -> decoded tile)
    image_size,       \* self.image_size
    displayed,        \* the image the controller shows (pixel origin -> pixels)
    last_received_time,   \* self.last_received_time (ticks)
    ctl_send_queue,       \* self.send_queue of the controller's protocol
    ctl_wire,             \* messages the controller sent, not yet received
    last_mouse_send_time, \* self.last_mouse_send_time (ticks)
    issued,               \* the calls of send_command, in order, with their times
    \* ---- RawSocketServer (the listening end) ----
    accept_pc,        \* _accept_connections: "accept" or "exited"
    client_protocols, \* protocol instances the server has created
    backlog,          \* connections of peers the server has not accepted
    \* ---- the screen ----
    screen_width,     \* width of the captured monitor, in pixels
    \* ---- ControlleeProtocol (Twisted) ----
    last_image,       \* self.last_image
    timers,           \* delayed calls of sendScreenshot the reactor holds
    \* ---- ProtocolBase (the Twisted framing) ----
    receiveBuffer,         \* self.receiveBuffer
    receiveMessageLength,  \* self.receiveMessageLength (-1: no header read)
    delivered,             \* payloads passed to messageReceived (history)
    buffer,                \* self.buffer, as runs of bytes of the framed messages
    flush_scheduled,       \* self.flush_scheduled
    flush_immediate_calls, \* delayed calls of flush_immediate pending
    transport_written,     \* runs of bytes transport.write accepted (history)
    framed,                \* lengths of the payloads of writeMessage (history)
    applied,          \* the message message_received handled last
    captures          \* the latest two captures, latest last

transportVars == <<running, message_handler, send_queue, wire, receive_buffer,
                   handled, written, offered>>

serverVars == <<accept_pc, client_protocols, backlog>>

\* ProtocolBase: the Twisted framing
baseVars == <<receiveBuffer, receiveMessageLength, delivered, buffer, flush_scheduled,
              flush_immediate_calls, transport_written, framed>>

configVars == <<config, screenshot_interval, current_quality_offset, fps_history, commands,
                shouldRun>>

tileVars == <<tile_size, last_tiles, tile_timestamps, static_tile_threshold>>

captureVars == <<last_screenshot_time, screenshot_lock, is_processing_screenshot,
                 cap_pc, cap_time, cap_mode, cap_raised, captures, last_image, timers>>

controllerVars == <<controller, tile_cache, image_size, displayed, last_received_time,
                    ctl_send_queue, ctl_wire, last_mouse_send_time, issued>>

connVars == <<impl, screen_width, serverVars, role, factory_running, socket_closed, peer_closed, stop_called,
              recv_state, send_state, controllerVars>>

controlleeVars == <<configVars, baseVars, tileVars, captureVars, connVars, now, applied>>

vars == <<transportVars, controlleeVars>>

(***************************************************************************)
(* struct.pack / struct.unpack with NUM_FORMAT = '<Q'                      *)
(***************************************************************************)
HeaderSize == 8

RecvMax == 131072

\* struct.pack('<Q', n): eight bytes, least significant first
RECURSIVE PackBytes(_, _)
PackBytes(n, k) ==
    IF k = 0 THEN <<>> ELSE <<n % 256>> \o PackBytes(n \div 256, k - 1)

PackQ(n) == PackBytes(n, HeaderSize)

\* Lengths at or above LengthCap are all longer than any buffer of the model;
\* the decoded value saturates there (the checker's integers are 32 bits wide,
\* the wire's are 64).
LengthCap == 1048576

RECURSIVE UnpackFrom(_, _)
UnpackFrom(bytes, i) ==
    IF i > Len(bytes) THEN 0
    ELSE LET rest == UnpackFrom(bytes, i + 1)
         IN IF rest >= LengthCap \div 256 THEN LengthCap
            ELSE bytes[i] + 256 * rest

\* struct.unpack('<Q', bytes)[0]
UnpackQ(bytes) == UnpackFrom(bytes, 1)

Drop(s, n) == SubSeq(s, n + 1, Len(s))

Take(s, n) == SubSeq(s, 1, n)

(***************************************************************************)
(* RawSocketProtocol                                                       *)
(***************************************************************************)
\* a byte of ASCII and one that is not
PayloadBytes == {0, 200}

RECURSIVE SeqsUpTo(_, _)
SeqsUpTo(S, n) ==
    IF n = 0 THEN {<<>>}
    ELSE LET shorter == SeqsUpTo(S, n - 1)
         IN shorter \cup {Append(s, x) : s \in {t \in shorter : Len(t) = n - 1}, x \in S}

Payloads == SeqsUpTo(PayloadBytes, MaxPayloadLen)

\* the send worker passing the payload alone to sendall
FrameUnprefixed(data) == data

\* the bytes _send_worker passes to sendall: message_length + data
Frame(data) == PackQ(Len(data)) \o data

\* the handler raises on a payload it cannot decode as ASCII
HandlerRaises(data) == \E i \in DOMAIN data : data[i] >= 128

\* _process_messages letting the exception of the handler through
HandlerPropagatesUncaught(data) == HandlerRaises(data)

\* try: self.message_handler(message_data) / except Exception: print(...):
\* TRUE when the exception of the handler leaves _process_messages
HandlerPropagates(data) == FALSE

\* _process_messages comparing with > where the code compares with >=
RECURSIVE ProcessMessagesStrict(_, _, _)
ProcessMessagesStrict(buf, out, handler) ==
    IF Len(buf) >= HeaderSize
    THEN LET message_length == UnpackQ(Take(buf, HeaderSize))
             total_length   == HeaderSize + message_length
             message_data   == SubSeq(buf, HeaderSize + 1, total_length)
         IN IF Len(buf) > total_length
            THEN IF handler /\ HandlerPropagates(message_data)
                 THEN <<Drop(buf, total_length), Append(out, message_data), TRUE>>
                 ELSE ProcessMessagesStrict(Drop(buf, total_length),
                                      IF handler THEN Append(out, message_data) ELSE out,
                                      handler)
            ELSE <<buf, out, FALSE>>
    ELSE <<buf, out, FALSE>>

\* the while loop of _process_messages: returns <<remaining buffer, handled,
\* whether an exception left the loop>>
RECURSIVE ProcessMessages(_, _, _)
ProcessMessages(buf, out, handler) ==
    IF Len(buf) >= HeaderSize
    THEN LET message_length == UnpackQ(Take(buf, HeaderSize))
             total_length   == HeaderSize + message_length
             message_data   == SubSeq(buf, HeaderSize + 1, total_length)
         IN IF Len(buf) >= total_length
            THEN IF handler /\ HandlerPropagates(message_data)
                 THEN <<Drop(buf, total_length), Append(out, message_data), TRUE>>
                 ELSE ProcessMessages(Drop(buf, total_length),
                                      IF handler THEN Append(out, message_data) ELSE out,
                                      handler)
            ELSE <<buf, out, FALSE>>
    ELSE <<buf, out, FALSE>>

\* write_message putting the payload on the queue whatever self.running is
WriteEnqueueAlways(q, data) == Append(q, data)

\* write_message(data)
WriteEnqueue(q, data) == IF running THEN Append(q, data) ELSE q

WriteMessage(data) ==
    /\ Len(offered) < MaxMsgs
    /\ send_queue' = WriteEnqueue(send_queue, data)
    /\ written' = IF send_queue' # send_queue THEN Append(written, data) ELSE written
    /\ offered' = Append(offered, data)
    /\ UNCHANGED <<running, message_handler, wire, receive_buffer, handled>>
    /\ UNCHANGED controlleeVars

\* one iteration of _send_worker that finds a message on the queue
SendWorker ==
    /\ running
    /\ send_state = "running"
    /\ send_queue # <<>>
    /\ wire' = wire \o Frame(Head(send_queue))
    /\ send_queue' = Tail(send_queue)
    /\ UNCHANGED <<running, message_handler, receive_buffer, handled, written, offered>>
    /\ UNCHANGED controlleeVars

\* one iteration of _receive_worker: recv returns the next n bytes of the
\* stream; an exception that leaves _process_messages ends the worker
ReceiveWorker ==
    /\ running
    /\ recv_state = "running"
    /\ \E n \in 1..Len(wire) :
        /\ n <= RecvMax
        /\ LET r == ProcessMessages(receive_buffer \o Take(wire, n), handled, message_handler)
           IN /\ receive_buffer' = r[1]
              /\ handled' = r[2]
              /\ recv_state' = IF r[3] THEN "exited" ELSE recv_state
        /\ wire' = Drop(wire, n)
    /\ UNCHANGED <<running, message_handler, send_queue, written, offered>>
    /\ UNCHANGED <<impl, screen_width, serverVars, role, factory_running, socket_closed,
                   peer_closed, stop_called, send_state, controllerVars>>
    /\ UNCHANGED <<configVars, baseVars, tileVars, captureVars, now, applied>>

(***************************************************************************)
(* ProtocolBase (protocol_base.py): the framing of the Twisted protocols   *)
(***************************************************************************)
\* ControlleeProtocol.messageReceived raising: data.decode('ascii') is not
\* inside a try
MessageReceivedRaises(data) == HandlerRaises(data)

\* processMessage(): returns <<receiveMessageLength, receiveBuffer, payloads
\* passed to messageReceived, whether an exception left processMessage>>
RECURSIVE ProcessMessage(_, _, _)
ProcessMessage(length, buf, out) ==
    IF length = -1
    THEN IF Len(buf) < HeaderSize
         THEN <<length, buf, out, FALSE>>
         ELSE ProcessMessage(UnpackQ(Take(buf, HeaderSize)), Drop(buf, HeaderSize), out)
    ELSE IF length <= Len(buf)
         THEN LET bufferCopy == Take(buf, length)
              IN IF MessageReceivedRaises(bufferCopy)
                 THEN <<-1, Drop(buf, length), Append(out, bufferCopy), TRUE>>
                 ELSE ProcessMessage(-1, Drop(buf, length), Append(out, bufferCopy))
         ELSE <<length, buf, out, FALSE>>

\* dataReceived(data)
DataReceived(data) ==
    LET r == ProcessMessage(receiveMessageLength, receiveBuffer \o data, delivered)
    IN /\ receiveMessageLength' = r[1]
       /\ receiveBuffer' = r[2]
       /\ delivered' = r[3]

\* the next n bytes of one stream reach a RawSocketProtocol (an iteration of
\* _receive_worker) and a ProtocolBase (a call of dataReceived)
ReceiveBoth ==
    /\ running
    /\ recv_state = "running"
    /\ \E n \in 1..Len(wire) :
        /\ n <= RecvMax
        /\ LET r == ProcessMessages(receive_buffer \o Take(wire, n), handled, message_handler)
           IN /\ receive_buffer' = r[1]
              /\ handled' = r[2]
              /\ recv_state' = IF r[3] THEN "exited" ELSE recv_state
        /\ DataReceived(Take(wire, n))
        /\ wire' = Drop(wire, n)
    /\ UNCHANGED <<running, message_handler, send_queue, written, offered>>
    /\ UNCHANGED <<buffer, flush_scheduled, flush_immediate_calls, transport_written, framed>>
    /\ UNCHANGED <<impl, screen_width, serverVars, role, factory_running, socket_closed,
                   peer_closed, stop_called, send_state, controllerVars>>
    /\ UNCHANGED <<configVars, tileVars, captureVars, now, applied>>

(***************************************************************************)
(* ProtocolBase: writeMessage, flush_immediate and flush.  The buffer is   *)
(* kept as runs of bytes: [m, lo, hi] stands for the bytes lo .. hi-1 of   *)
(* the frame of the m-th message written.                                  *)
(***************************************************************************)
\* chunk_size = min(len(self.buffer), 262144)
FlushChunk == 262144

\* payload lengths of writeMessage: empty, short, and longer than a chunk
PayloadLengths == {0, 10, LargePayloadLen}

RECURSIVE RunsLen(_)
RunsLen(runs) ==
    IF runs = <<>> THEN 0 ELSE (Head(runs).hi - Head(runs).lo) + RunsLen(Tail(runs))

\* runs[:n]
RECURSIVE TakeBytes(_, _)
TakeBytes(runs, n) ==
    IF n = 0 \/ runs = <<>> THEN <<>>
    ELSE LET r == Head(runs)
         IN IF r.hi - r.lo <= n
            THEN <<r>> \o TakeBytes(Tail(runs), n - (r.hi - r.lo))
            ELSE <<[r EXCEPT !.hi = r.lo + n]>>

\* runs[n:]
RECURSIVE DropBytes(_, _)
DropBytes(runs, n) ==
    IF n = 0 \/ runs = <<>> THEN runs
    ELSE LET r == Head(runs)
         IN IF r.hi - r.lo <= n
            THEN DropBytes(Tail(runs), n - (r.hi - r.lo))
            ELSE <<[r EXCEPT !.lo = r.lo + n]>> \o Tail(runs)

\* flush emptying the buffer whatever it has written
FlushRestNone(buf, chunk_size) == <<>>

\* self.buffer = self.buffer[chunk_size:]
FlushRest(buf, chunk_size) == DropBytes(buf, chunk_size)

BaseUnchanged ==
    /\ UNCHANGED <<receiveBuffer, receiveMessageLength, delivered>>
    /\ UNCHANGED <<transportVars, configVars, tileVars, captureVars, connVars, now, applied>>

\* writeMessage(newBytes), newBytes of the given length
writeMessage(length) ==
    /\ impl = "twisted"
    /\ Len(framed) < MaxMsgs
    /\ framed' = Append(framed, length)
    /\ buffer' = Append(buffer, [m |-> Len(framed) + 1, lo |-> 0, hi |-> HeaderSize + length])
    /\ IF ~flush_scheduled
       THEN /\ flush_scheduled' = TRUE
            /\ flush_immediate_calls' = flush_immediate_calls + 1
       ELSE UNCHANGED <<flush_scheduled, flush_immediate_calls>>
    /\ UNCHANGED transport_written
    /\ BaseUnchanged

\* flush_immediate(), a delayed call coming due; ok is FALSE when
\* transport.write raises
flush_immediate(ok) ==
    /\ impl = "twisted"
    /\ flush_immediate_calls > 0
    /\ flush_immediate_calls' = flush_immediate_calls - 1
    /\ flush_scheduled' = FALSE
    /\ IF RunsLen(buffer) > 0 /\ ok
       THEN /\ transport_written' = transport_written \o buffer
            /\ buffer' = <<>>
       ELSE UNCHANGED <<transport_written, buffer>>
    /\ UNCHANGED framed
    /\ BaseUnchanged

\* flush(), the delayed call that is always pending
flush(ok) ==
    /\ impl = "twisted"
    /\ IF RunsLen(buffer) > 0 /\ ~flush_scheduled /\ ok
       THEN LET chunk_size == IF RunsLen(buffer) < FlushChunk THEN RunsLen(buffer)
                              ELSE FlushChunk
            IN /\ transport_written' = transport_written \o TakeBytes(buffer, chunk_size)
               /\ buffer' = FlushRest(buffer, chunk_size)
       ELSE UNCHANGED <<transport_written, buffer>>
    /\ UNCHANGED <<flush_scheduled, flush_immediate_calls, framed>>
    /\ BaseUnchanged

(***************************************************************************)
(* constants.py (not among the source files): names and defaults as the    *)
(* configuration table of the specification gives them.  Booleans are 0/1, *)
(* the scale is in hundredths.                                             *)
(***************************************************************************)
VAR_FPS == "fps"

VAR_SCALE == "scale"

VAR_MONITOR == "monitor"

VAR_JPEG_QUALITY == "jpeg_quality"

VAR_USE_NUMPY == "use_numpy"

VAR_COMPRESSION_LEVEL == "compression_level"

VAR_SHOULD_UPDATE_COMMANDS == "should_update_commands"

VAR_USE_DELTA == "use_delta"

VAR_FPS_DEFAULT == 120

VAR_SCALE_DEFAULT == 100

VAR_MONITOR_DEFAULT == 0

VAR_JPEG_QUALITY_DEFAULT == 50

VAR_USE_NUMPY_DEFAULT == 0

VAR_COMPRESSION_LEVEL_DEFAULT == 1

VAR_SHOULD_UPDATE_COMMANDS_DEFAULT == 1

(***************************************************************************)
(* Values                                                                  *)
(***************************************************************************)
\* an attribute is <<>> while the object does not have it (or it is None),
\* and <<value>> once it is assigned
Unset == <<>>

Attr(value) == <<value>>

\* {}
EmptyDict == <<>>

Val(attribute) == attribute[1]

NoThread == "none"

CaptureWorker == "capture"

Reactor == "reactor"

\* the rational 1.0 / value
Recip(value) == <<1, value>>

\* a - b >= q, for ticks a, b and a rational number of seconds q (q[2] > 0)
ElapsedAtLeast(a, b, q) == (a - b) * q[2] >= q[1] * TicksPerSecond

\* the clock when the protocol object is constructed: a time.time() far from 0
StartTime == TicksPerSecond

\* dict.get(key, default)
Get(d, key, default) == IF key \in DOMAIN d THEN d[key] ELSE default

\* d[key] = value
Put(d, key, value) == [k \in DOMAIN d \cup {key} |-> IF k = key THEN value ELSE d[k]]

(***************************************************************************)
(* set_variable / setVariable                                              *)
(***************************************************************************)
\* set_variable refreshing the interval whatever the key is
IntervalAfterSetAnyKey(interval, variable, value) ==
    IF value > 0 THEN Recip(value) ELSE interval

\* set_variable refreshing the interval without the value > 0 test
IntervalAfterSetNoGuard(interval, variable, value) ==
    IF variable = VAR_FPS THEN Recip(value) ELSE interval

\* the screenshot_interval set_variable(variable, value) leaves
IntervalAfterSet(interval, variable, value) ==
    IF variable = VAR_FPS /\ value > 0 THEN Recip(value) ELSE interval

\* the config set_variable(variable, value) leaves
ConfigAfterSet(cfg, variable, value) == Put(cfg, variable, value)

\* the config after the set_variable calls of __init__
DefaultConfig ==
    [k \in {VAR_SCALE, VAR_MONITOR, VAR_SHOULD_UPDATE_COMMANDS, VAR_FPS,
            VAR_JPEG_QUALITY, VAR_USE_NUMPY, VAR_COMPRESSION_LEVEL} |->
        CASE k = VAR_SCALE -> VAR_SCALE_DEFAULT
          [] k = VAR_MONITOR -> VAR_MONITOR_DEFAULT
          [] k = VAR_SHOULD_UPDATE_COMMANDS -> VAR_SHOULD_UPDATE_COMMANDS_DEFAULT
          [] k = VAR_FPS -> VAR_FPS_DEFAULT
          [] k = VAR_JPEG_QUALITY -> VAR_JPEG_QUALITY_DEFAULT
          [] k = VAR_USE_NUMPY -> VAR_USE_NUMPY_DEFAULT
          [] OTHER -> VAR_COMPRESSION_LEVEL_DEFAULT]

\* the config after the setVariable calls of ControlleeProtocol.__init__;
\* VAR_USE_DELTA_DEFAULT is defined in constants.py only
TwistedConfig(use_delta) ==
    [k \in {VAR_SCALE, VAR_MONITOR, VAR_SHOULD_UPDATE_COMMANDS, VAR_FPS,
            VAR_JPEG_QUALITY, VAR_USE_DELTA} |->
        CASE k = VAR_SCALE -> VAR_SCALE_DEFAULT
          [] k = VAR_MONITOR -> VAR_MONITOR_DEFAULT
          [] k = VAR_SHOULD_UPDATE_COMMANDS -> VAR_SHOULD_UPDATE_COMMANDS_DEFAULT
          [] k = VAR_FPS -> VAR_FPS_DEFAULT
          [] k = VAR_JPEG_QUALITY -> VAR_JPEG_QUALITY_DEFAULT
          [] OTHER -> use_delta]

(***************************************************************************)
(* Frames and tiles.  A frame is the set of its lit blocks; a block is     *)
(* BlockPx x BlockPx pixels.                                               *)
(***************************************************************************)
BlockPx == 32

\* the width of the frame the capture API returns
FrameWidth == screen_width

FrameHeight == ScreenBlocksY * BlockPx

Frames == {{}, {<<0, 0>>}, {<<2, 0>>}}

Min(a, b) == IF a < b THEN a ELSE b

Max(a, b) == IF a > b THEN a ELSE b

\* range(0, limit, step) as a sequence
RECURSIVE RangeFrom(_, _, _)
RangeFrom(start, limit, step) ==
    IF start >= limit THEN <<>> ELSE <<start>> \o RangeFrom(start + step, limit, step)

\* the (x, y) the two nested loops of _get_changed_tiles visit, in order
RECURSIVE Cross(_, _)
Cross(ys, xs) ==
    IF ys = <<>> THEN <<>>
    ELSE [i \in 1..Len(xs) |-> <<xs[i], Head(ys)>>] \o Cross(Tail(ys), xs)

TileOrigins(T) == Cross(RangeFrom(0, FrameHeight, T), RangeFrom(0, FrameWidth, T))

\* tile.tobytes() of img.crop((x, y, x + w, y + h)): the size and the lit blocks
TileBytes(frame, x, y, w, h) ==
    <<w, h, {b \in frame : /\ b[1] * BlockPx >= x /\ b[1] * BlockPx < x + w
                           /\ b[2] * BlockPx >= y /\ b[2] * BlockPx < y + h}>>

\* hash(tile.tobytes()): equal bytes give equal hashes; collisions are not modelled
Hash(bytes) == bytes

ResyncSeconds == 30

\* the body of the loops of _get_changed_tiles for the tile at (x, y);
\* st = [changed, last, ts]
TileStep(st, frame, T, x, y, current_time, threshold) ==
    LET tile_width  == Min(T, FrameWidth - x)
        tile_height == Min(T, FrameHeight - y)
        tile_hash   == Hash(TileBytes(frame, x, y, tile_width, tile_height))
        tile_key    == <<x \div T, y \div T>>
        entry       == [x |-> x, y |-> y, w |-> tile_width, h |-> tile_height,
                        key |-> tile_key]
    IN IF tile_key \notin DOMAIN st.last \/ st.last[tile_key] # tile_hash
       THEN [changed |-> Append(st.changed, entry),
             last    |-> Put(st.last, tile_key, tile_hash),
             ts      |-> Put(st.ts, tile_key, current_time)]
       ELSE IF /\ tile_key \in DOMAIN st.ts
               /\ current_time - st.ts[tile_key] > threshold
            THEN st
            ELSE IF \/ tile_key \notin DOMAIN st.ts
                    \/ current_time - Get(st.ts, tile_key, 0) > ResyncSeconds * TicksPerSecond
                 THEN [st EXCEPT !.changed = Append(st.changed, entry),
                                 !.ts = Put(st.ts, tile_key, current_time)]
                 ELSE st

RECURSIVE TileLoop(_, _, _, _, _, _)
TileLoop(st, origins, frame, T, current_time, threshold) ==
    IF origins = <<>> THEN st
    ELSE TileLoop(TileStep(st, frame, T, Head(origins)[1], Head(origins)[2],
                           current_time, threshold),
                  Tail(origins), frame, T, current_time, threshold)

\* _get_changed_tiles(img): [changed, last, ts]
GetChangedTiles(frame, current_time) ==
    TileLoop([changed |-> <<>>, last |-> Val(last_tiles), ts |-> Val(tile_timestamps)],
             TileOrigins(Val(tile_size)), frame, Val(tile_size), current_time,
             Val(static_tile_threshold))

\* the quality _send_changed_tiles computes
BaseQuality(fps_target) ==
    IF fps_target >= 120 THEN 20 ELSE IF fps_target >= 60 THEN 35 ELSE 60

\* the quality without its floor of 10
TileQualityNoFloor(fps_target, num_changed, total_tiles) ==
    LET base_quality == BaseQuality(fps_target)
        total == Max(total_tiles, 1)
    IN IF num_changed * 100 < 5 * total THEN Min(95, base_quality + 30)
       ELSE IF num_changed * 10 < 2 * total THEN base_quality
       ELSE base_quality - 15

TileQuality(fps_target, num_changed, total_tiles) ==
    LET base_quality == BaseQuality(fps_target)
        total == Max(total_tiles, 1)
    IN IF num_changed * 100 < 5 * total THEN Min(95, base_quality + 30)
       ELSE IF num_changed * 10 < 2 * total THEN base_quality
       ELSE Max(10, base_quality - 15)

TotalTiles(T) ==
    ((FrameWidth + T - 1) \div T) * ((FrameHeight + T - 1) \div T)

\* the codec collaborator: the bytes of a tile encoded at a quality
Encode(bytes, quality) == [pixels |-> bytes, quality |-> quality]

\* the TILES header carrying the default fps instead of the configured one
TilesHeaderDefaultFps(num_tiles, quality, fps_target) ==
    [tag |-> "TILES", ints |-> <<num_tiles, quality, VAR_FPS_DEFAULT>>]

\* b'TILES' + struct.pack('<III', len(changed_tiles), quality, int(fps_target))
TilesHeader(num_tiles, quality, fps_target) ==
    [tag |-> "TILES", ints |-> <<num_tiles, quality, fps_target>>]

\* struct.pack('<IIII', x, y, tile_width, tile_height) + tile_data
TileMessage(frame, t, quality) ==
    [tag |-> "", ints |-> <<t.x, t.y, t.w, t.h>>,
     body |-> Encode(TileBytes(frame, t.x, t.y, t.w, t.h), quality)]

NoChange == [tag |-> "NO_CHANGE"]

\* the messages _send_changed_tiles writes, in order; <<>> when struct.pack raises
SendChangedTiles(frame, changed_tiles) ==
    LET fps_target == Get(config, VAR_FPS, VAR_FPS_DEFAULT)
        quality == TileQuality(fps_target, Len(changed_tiles), TotalTiles(Val(tile_size)))
    IN IF fps_target < 0 THEN <<>>
       ELSE <<TilesHeader(Len(changed_tiles), quality, fps_target)>>
            \o [i \in 1..Len(changed_tiles) |-> TileMessage(frame, changed_tiles[i], quality)]

\* send_screenshot_numpy: the NUMPY message
NumpyMessage(frame) ==
    LET fps_target == Get(config, VAR_FPS, VAR_FPS_DEFAULT)
        scale == config[VAR_SCALE]
        step == IF scale < 100 THEN Max(1, 100 \div scale) ELSE 1
    IN [tag |-> "NUMPY", step |-> step, raw |-> fps_target > 120,
        level |-> Get(config, VAR_COMPRESSION_LEVEL, VAR_COMPRESSION_LEVEL_DEFAULT),
        pixels |-> frame]

\* write_message for each message of msgs, in order
RECURSIVE WriteAll(_, _)
WriteAll(q, msgs) ==
    IF msgs = <<>> THEN q ELSE WriteAll(WriteEnqueue(q, Head(msgs)), Tail(msgs))


(***************************************************************************)
(* Messages the controller sends                                           *)
(***************************************************************************)
COMMAND_SEND_SCREENSHOT == [tag |-> "SEND_SCREENSHOT"]

SetVar(variable, value) == [tag |-> "SET_VAR", variable |-> variable, value |-> value]

\* COMMAND_NEW_COMMAND + json.dumps([command_name, *args])
NewCommand(command) == [tag |-> "NEW_COMMAND", json |-> command]

\* f"NET_FEEDBACK:{quality_adjustment}:{current_fps:.1f}"; fps in tenths
NetFeedback(quality_adjustment, fps) ==
    [tag |-> "NET_FEEDBACK", adjustment |-> quality_adjustment, fps |-> fps]

NoMessage == [tag |-> "none"]

(***************************************************************************)
(* The history of captures: the latest two.  A capture starts when it sets *)
(* is_processing_screenshot; its start time is the current_time it stores  *)
(* in last_screenshot_time.                                                *)
(***************************************************************************)
NoCapture == [mode |-> "none", after |-> NoMessage]

\* a capture that has started: after is the message handled last before it
CaptureStart(start, after) ==
    [mode |-> "started", start |-> start, after |-> after, frame |-> {}, emitted |-> <<>>,
     offset |-> 0, tile |-> Unset]

\* the capture has grabbed the frame in the mode and passed msgs to write_message,
\* the feedback offset and the tile size being what they are
CaptureDone(capture, mode, frame, msgs) ==
    [capture EXCEPT !.mode = mode, !.frame = frame, !.emitted = msgs,
                    !.offset = current_quality_offset, !.tile = tile_size]

Started(history, start, after) == <<history[2], CaptureStart(start, after)>>

Finished(history, mode, frame, msgs) ==
    <<history[1], CaptureDone(history[2], mode, frame, msgs)>>

\* a message has been handled since the captures of the history started
Forget(history) == [i \in 1..2 |-> [history[i] EXCEPT !.after = NoMessage]]

(***************************************************************************)
(* RawControlleeProtocol._screenshot_loop, statement by statement          *)
(***************************************************************************)
CapUnchanged ==
    /\ UNCHANGED <<transportVars, configVars, baseVars, tileVars, connVars, now, applied>>
    /\ UNCHANGED <<captures, last_image, timers>>

\* while self.running:
CapLoop ==
    /\ impl = "raw"
    /\ cap_pc = "loop"
    /\ cap_pc' = IF running THEN "sample" ELSE "exited"
    /\ UNCHANGED <<last_screenshot_time, screenshot_lock, is_processing_screenshot,
                   cap_time, cap_mode, cap_raised>>
    /\ CapUnchanged

\* current_time = time.time()
CapSample ==
    /\ impl = "raw"
    /\ cap_pc = "sample"
    /\ cap_time' = now
    /\ cap_pc' = "check"
    /\ UNCHANGED <<last_screenshot_time, screenshot_lock, is_processing_screenshot,
                   cap_mode, cap_raised>>
    /\ CapUnchanged

\* the pacing check letting every iteration through
CapCheckAlways ==
    /\ impl = "raw"
    /\ cap_pc = "check"
    /\ cap_pc' = "lock"
    /\ UNCHANGED <<last_screenshot_time, screenshot_lock, is_processing_screenshot,
                   cap_time, cap_mode, cap_raised>>
    /\ CapUnchanged

\* if current_time - self.last_screenshot_time >= self.screenshot_interval:
\* (otherwise time.sleep(0.001) and the next iteration)
CapCheck ==
    /\ impl = "raw"
    /\ cap_pc = "check"
    /\ cap_pc' = IF ElapsedAtLeast(cap_time, last_screenshot_time, screenshot_interval)
                 THEN "lock" ELSE "loop"
    /\ UNCHANGED <<last_screenshot_time, screenshot_lock, is_processing_screenshot,
                   cap_time, cap_mode, cap_raised>>
    /\ CapUnchanged

\* the capture worker going on without taking the lock
CapAcquireSkipped ==
    /\ impl = "raw"
    /\ cap_pc = "lock"
    /\ cap_pc' = "flag"
    /\ UNCHANGED <<last_screenshot_time, screenshot_lock, is_processing_screenshot,
                   cap_time, cap_mode, cap_raised>>
    /\ CapUnchanged

\* with self.screenshot_lock:
CapAcquire ==
    /\ impl = "raw"
    /\ cap_pc = "lock"
    /\ screenshot_lock = NoThread
    /\ screenshot_lock' = CaptureWorker
    /\ cap_pc' = "flag"
    /\ UNCHANGED <<last_screenshot_time, is_processing_screenshot,
                   cap_time, cap_mode, cap_raised>>
    /\ CapUnchanged

\* if not self.is_processing_screenshot: set the flag and last_screenshot_time
CapFlag ==
    /\ impl = "raw"
    /\ cap_pc = "flag"
    /\ IF ~is_processing_screenshot
       THEN /\ is_processing_screenshot' = TRUE
            /\ last_screenshot_time' = cap_time
            /\ captures' = Started(captures, cap_time, applied)
            /\ cap_pc' = "select"
       ELSE /\ UNCHANGED <<is_processing_screenshot, last_screenshot_time, captures>>
            /\ cap_pc' = "unlock"
    /\ UNCHANGED <<screenshot_lock, cap_time, cap_mode, cap_raised, last_image, timers>>
    /\ UNCHANGED <<transportVars, configVars, baseVars, tileVars, connVars, now, applied>>

\* the method the mode selection of _screenshot_loop picks
SelectMode(cfg) ==
    LET fps_target == Get(cfg, VAR_FPS, VAR_FPS_DEFAULT)
        use_numpy  == Get(cfg, VAR_USE_NUMPY, VAR_USE_NUMPY_DEFAULT)
        scale      == Get(cfg, VAR_SCALE, VAR_SCALE_DEFAULT)
    IN IF use_numpy # 0 /\ scale <= 50 /\ fps_target >= 90 THEN "numpy" ELSE "jpeg"

CapSelect ==
    /\ impl = "raw"
    /\ cap_pc = "select"
    /\ cap_mode' = SelectMode(config)
    /\ cap_pc' = "encode"
    /\ UNCHANGED <<last_screenshot_time, screenshot_lock, is_processing_screenshot,
                   cap_time, cap_raised>>
    /\ CapUnchanged

\* send_screenshot_numpy() or send_screenshot_jpeg() on the frame the screen
\* shows; grab_ok is FALSE when the capture API raises
CapEncode(frame, grab_ok) ==
    /\ impl = "raw"
    /\ cap_pc = "encode"
    /\ cap_pc' = "clear"
    /\ IF ~grab_ok
       THEN /\ cap_raised' = TRUE
            /\ captures' = Finished(captures, "failed", {}, <<>>)
            /\ UNCHANGED <<send_queue, tileVars>>
       ELSE IF cap_mode = "numpy"
       THEN /\ send_queue' = WriteAll(send_queue, <<NumpyMessage(frame)>>)
            /\ captures' = Finished(captures, cap_mode, frame, <<NumpyMessage(frame)>>)
            /\ cap_raised' = FALSE
            /\ UNCHANGED tileVars
       ELSE IF tile_size = Unset \/ last_tiles = Unset \/ tile_timestamps = Unset
               \/ static_tile_threshold = Unset
       THEN \* AttributeError in _get_changed_tiles
            /\ cap_raised' = TRUE
            /\ captures' = Finished(captures, cap_mode, frame, <<>>)
            /\ UNCHANGED <<send_queue, tileVars>>
       ELSE LET r == GetChangedTiles(frame, now)
                msgs == IF r.changed = <<>> THEN <<NoChange>>
                        ELSE SendChangedTiles(frame, r.changed)
            IN /\ last_tiles' = Attr(r.last)
               /\ tile_timestamps' = Attr(r.ts)
               /\ send_queue' = WriteAll(send_queue, msgs)
               /\ captures' = Finished(captures, cap_mode, frame, msgs)
               /\ cap_raised' = (msgs = <<>>)
               /\ UNCHANGED <<tile_size, static_tile_threshold>>
    /\ UNCHANGED <<last_screenshot_time, screenshot_lock, is_processing_screenshot,
                   cap_time, cap_mode, last_image, timers>>
    /\ UNCHANGED <<running, message_handler, wire, receive_buffer, handled, written, offered>>
    /\ UNCHANGED <<configVars, baseVars, connVars, now, applied>>

\* finally: self.is_processing_screenshot = False
CapClear ==
    /\ impl = "raw"
    /\ cap_pc = "clear"
    /\ is_processing_screenshot' = FALSE
    /\ cap_pc' = "unlock"
    /\ UNCHANGED <<last_screenshot_time, screenshot_lock, cap_time, cap_mode, cap_raised>>
    /\ CapUnchanged

\* leaving the with block; an exception is caught by the except of the loop;
\* time.sleep(0.001)
CapUnlock ==
    /\ impl = "raw"
    /\ cap_pc = "unlock"
    /\ screenshot_lock' = NoThread
    /\ cap_raised' = FALSE
    /\ cap_pc' = "loop"
    /\ UNCHANGED <<last_screenshot_time, is_processing_screenshot, cap_time, cap_mode>>
    /\ CapUnchanged

(***************************************************************************)
(* RawControlleeProtocol.message_received, called by _receive_worker       *)
(***************************************************************************)
OffsetLimit == 50

HistoryLimit == 10

LowFps == 30

HighFps == 50

MinTileSize == 32

MaxTileSize == 128

\* the offset clamped before the adjustment is added
OffsetAfterFeedbackClampFirst(offset, quality_adjustment) ==
    Max(-OffsetLimit, Min(OffsetLimit, offset)) + quality_adjustment

\* current_quality_offset after _adjust_quality_based_on_feedback
OffsetAfterFeedback(offset, quality_adjustment) ==
    Max(-OffsetLimit, Min(OffsetLimit, offset + quality_adjustment))

\* fps_history after the append and the pop(0)
HistoryAfterFeedback(history, current_fps) ==
    LET longer == Append(history, current_fps)
    IN IF Len(longer) > HistoryLimit THEN Tail(longer) ELSE longer

RECURSIVE Sum(_)
Sum(values) == IF values = <<>> THEN 0 ELSE Head(values) + Sum(Tail(values))

\* avg_fps < bound and avg_fps > bound, for a history in tenths (not empty)
AvgBelow(history, bound) == Sum(history) < 10 * bound * Len(history)

AvgAbove(history, bound) == Sum(history) > 10 * bound * Len(history)

\* the tile size adapted to the reported fps instead of the average
TileSizeAfterFeedbackLast(T, history) ==
    LET last == <<history[Len(history)]>>
    IN IF AvgBelow(last, LowFps) /\ T > MinTileSize THEN Max(MinTileSize, T \div 2)
       ELSE IF AvgAbove(last, HighFps) /\ T < MaxTileSize THEN Min(MaxTileSize, T * 2)
       ELSE T

\* self.tile_size after the adaptation, history being the updated fps_history
TileSizeAfterFeedback(T, history) ==
    IF AvgBelow(history, LowFps) /\ T > MinTileSize THEN Max(MinTileSize, T \div 2)
    ELSE IF AvgAbove(history, HighFps) /\ T < MaxTileSize THEN Min(MaxTileSize, T * 2)
    ELSE T

\* message_received(data) raising inside its try: _adjust_quality_based_on_feedback
\* reads self.tile_size, which __init__ does not assign, when the average
\* is below 30 or above 50
MessageRaises(msg) ==
    /\ msg.tag = "NET_FEEDBACK"
    /\ tile_size = Unset
    /\ LET history == HistoryAfterFeedback(fps_history, msg.fps)
       IN AvgBelow(history, LowFps) \/ AvgAbove(history, HighFps)

\* message_received(data): what the handler does to the controllee
MessageReceived(msg) ==
    /\ IF msg.tag = "SET_VAR"
       THEN /\ config' = ConfigAfterSet(config, msg.variable, msg.value)
            /\ screenshot_interval' =
                   IntervalAfterSet(screenshot_interval, msg.variable, msg.value)
            /\ UNCHANGED <<current_quality_offset, fps_history, commands, tile_size>>
       ELSE IF msg.tag = "NEW_COMMAND"
       THEN /\ commands' = Append(commands, msg.json)
            /\ UNCHANGED <<config, screenshot_interval, current_quality_offset,
                           fps_history, tile_size>>
       ELSE IF msg.tag = "NET_FEEDBACK"
       THEN LET history == HistoryAfterFeedback(fps_history, msg.fps)
            IN /\ current_quality_offset' =
                      OffsetAfterFeedback(current_quality_offset, msg.adjustment)
               /\ fps_history' = history
               \* reading self.tile_size raises AttributeError while it is unset;
               \* the except of the handler absorbs it
               /\ tile_size' =
                      IF tile_size = Unset THEN Unset
                      ELSE Attr(TileSizeAfterFeedback(Val(tile_size), history))
               /\ UNCHANGED <<config, screenshot_interval, commands>>
       ELSE UNCHANGED <<config, screenshot_interval, current_quality_offset,
                        fps_history, commands, tile_size>>
    /\ applied' = msg
    /\ captures' = Forget(captures)
    /\ UNCHANGED <<last_screenshot_time, screenshot_lock, is_processing_screenshot,
                   cap_pc, cap_time, cap_mode, cap_raised, last_image, timers>>
    /\ UNCHANGED <<last_tiles, tile_timestamps, static_tile_threshold, shouldRun>>
    /\ UNCHANGED baseVars

\* one message of the controller handled by the receive worker
RecvMessage(msg) ==
    /\ impl = "raw"
    /\ recv_state = "running"
    /\ running
    /\ ~socket_closed
    /\ ~peer_closed
    /\ MessageReceived(msg)
    /\ UNCHANGED <<connVars, now, transportVars>>

\* _receive_worker leaving its loop: recv returned b'' (peer close), recv
\* raised (socket closed), or self.running is False
RecvExit ==
    /\ impl = "raw"
    /\ recv_state = "running"
    /\ peer_closed \/ socket_closed \/ ~running
    /\ recv_state' = "exited"
    /\ UNCHANGED <<impl, screen_width, serverVars, role, factory_running, socket_closed, peer_closed, stop_called,
                   send_state, controllerVars>>
    /\ UNCHANGED <<configVars, baseVars, tileVars, captureVars, now, applied,
                   transportVars>>

(***************************************************************************)
(* RawSocketProtocol._send_worker of the controllee                        *)
(***************************************************************************)
\* one message taken from the queue and passed to sendall; sent is FALSE when
\* sendall raises, which a closed socket always does and a connection the
\* peer closed may do.  The message travels to the controller when the
\* controller is part of the specification.
SendMessage(sent) ==
    /\ impl = "raw"
    /\ send_state = "running"
    /\ running
    /\ send_queue # <<>>
    /\ socket_closed => ~sent
    /\ ~sent => (socket_closed \/ peer_closed)
    /\ send_queue' = Tail(send_queue)
    /\ wire' = IF sent /\ controller # "none" THEN Append(wire, Head(send_queue)) ELSE wire
    /\ send_state' = IF sent THEN "running" ELSE "exited"
    /\ UNCHANGED <<impl, screen_width, serverVars, role, factory_running, socket_closed, peer_closed, stop_called,
                   recv_state, controllerVars>>
    /\ UNCHANGED <<running, message_handler, receive_buffer, handled, written, offered>>
    /\ UNCHANGED <<configVars, baseVars, tileVars, captureVars, now, applied>>

(***************************************************************************)
(* The environment: the peer, the orchestrator (cli.py), the clock         *)
(***************************************************************************)
PeerClose ==
    /\ impl = "raw"
    /\ ~peer_closed
    /\ peer_closed' = TRUE
    /\ UNCHANGED <<impl, screen_width, serverVars, role, factory_running, socket_closed, stop_called,
                   recv_state, send_state, controllerVars>>
    /\ UNCHANGED <<configVars, baseVars, tileVars, captureVars, now, applied,
                   transportVars>>

\* the socket RawSocketProtocol.stop closes: self.socket of the object
\* get_transport returned.  A RawSocketClient shares it with its protocol
\* instance; a RawSocketServer never sets it.
StopClosesSocket == role = "client"

\* factory.stop(): RawSocketProtocol.stop on the object get_transport returned
Stop ==
    /\ impl = "raw"
    /\ ~stop_called
    /\ stop_called' = TRUE
    /\ factory_running' = FALSE
    /\ socket_closed' = (socket_closed \/ StopClosesSocket)
    /\ UNCHANGED <<impl, screen_width, serverVars, role, peer_closed, recv_state, send_state, controllerVars>>
    /\ UNCHANGED <<configVars, baseVars, tileVars, captureVars, now, applied,
                   transportVars>>

Tick ==
    /\ now < StartTime + MaxTicks
    /\ now' = now + 1
    /\ UNCHANGED <<configVars, baseVars, tileVars, captureVars, connVars, applied,
                   transportVars>>

(***************************************************************************)
(* ControlleeProtocol (controllee.py): the Twisted controllee.  The reactor *)
(* runs one callback at a time; cap_pc = "idle" between callbacks.          *)
(***************************************************************************)
DeltaAreaLimit == 50000

\* diff.getbbox(): <<x1, y1, x2, y2>> in pixels, or <<>> when the images are equal
BBox(a, b) ==
    LET diff == (a \ b) \cup (b \ a)
        LeastX == CHOOSE x \in {d[1] : d \in diff} : \A d \in diff : x <= d[1]
        MostX  == CHOOSE x \in {d[1] : d \in diff} : \A d \in diff : x >= d[1]
        LeastY == CHOOSE y \in {d[2] : d \in diff} : \A d \in diff : y <= d[2]
        MostY  == CHOOSE y \in {d[2] : d \in diff} : \A d \in diff : y >= d[2]
    IN IF diff = {} THEN <<>>
       ELSE <<LeastX * BlockPx, LeastY * BlockPx, (MostX + 1) * BlockPx, (MostY + 1) * BlockPx>>

\* the quality of the full image encoding of sendScreenshotJPEG
FullQuality(fps_target) ==
    IF fps_target >= 120 THEN 10 ELSE IF fps_target >= 60 THEN 30 ELSE 60

\* the message sendScreenshotJPEG writes for the frame, given self.last_image
ScreenshotJPEG(frame, last) ==
    LET use_delta == config[VAR_USE_DELTA]
        bbox == IF use_delta # 0 /\ last # Unset THEN BBox(frame, Val(last)) ELSE <<>>
        area == IF bbox = <<>> THEN 0 ELSE (bbox[3] - bbox[1]) * (bbox[4] - bbox[2])
    IN IF bbox # <<>> /\ area < DeltaAreaLimit
       THEN [tag |-> "DELTA", ints |-> bbox,
             body |-> Encode(TileBytes(frame, bbox[1], bbox[2],
                                       bbox[3] - bbox[1], bbox[4] - bbox[2]), 100)]
       ELSE [tag |-> "", ints |-> <<>>,
             body |-> Encode(TileBytes(frame, 0, 0, FrameWidth, FrameHeight),
                             FullQuality(Get(config, VAR_FPS, VAR_FPS_DEFAULT)))]

\* the message sendScreenshotNumpy writes
ScreenshotNumpy(frame) ==
    LET fps_target == Get(config, VAR_FPS, VAR_FPS_DEFAULT)
        scale == config[VAR_SCALE]
        step == IF scale < 100 THEN Max(1, 100 \div scale) ELSE 1
    IN [tag |-> "NUMPY", step |-> step, raw |-> fps_target > 100,
        level |-> IF fps_target > 100 THEN 1
                  ELSE Get(config, VAR_COMPRESSION_LEVEL, VAR_COMPRESSION_LEVEL_DEFAULT),
        pixels |-> frame]

TwUnchanged ==
    /\ UNCHANGED <<transportVars, configVars, baseVars, tileVars, connVars, now, applied>>

\* a delayed call of sendScreenshot comes due: current_time = time.time()
TwTimer ==
    /\ impl = "twisted"
    /\ cap_pc = "idle"
    /\ timers > 0
    /\ timers' = timers - 1
    /\ cap_time' = now
    /\ cap_pc' = "tw_lock"
    /\ UNCHANGED <<last_screenshot_time, screenshot_lock, is_processing_screenshot,
                   cap_mode, cap_raised, captures, last_image>>
    /\ TwUnchanged

\* messageReceived(data)
TwMessageReceived(msg) ==
    /\ impl = "twisted"
    /\ cap_pc = "idle"
    /\ msg.tag = "SEND_SCREENSHOT" => timers < MaxTimers
    /\ IF msg.tag = "SET_VAR"
       THEN /\ config' = ConfigAfterSet(config, msg.variable, msg.value)
            /\ screenshot_interval' =
                   IntervalAfterSet(screenshot_interval, msg.variable, msg.value)
            /\ UNCHANGED <<cap_time, cap_pc, commands>>
       ELSE IF msg.tag = "NEW_COMMAND"
       THEN /\ commands' = Append(commands, msg.json)
            /\ UNCHANGED <<cap_time, cap_pc, config, screenshot_interval>>
       ELSE IF msg.tag = "SEND_SCREENSHOT"
       THEN /\ cap_time' = now
            /\ cap_pc' = "tw_lock"
            /\ UNCHANGED <<config, screenshot_interval, commands>>
       ELSE UNCHANGED <<cap_time, cap_pc, config, screenshot_interval, commands>>
    /\ applied' = msg
    /\ captures' = Forget(captures)
    /\ UNCHANGED <<last_screenshot_time, screenshot_lock, is_processing_screenshot,
                   cap_mode, cap_raised, last_image, timers>>
    /\ UNCHANGED <<current_quality_offset, fps_history, shouldRun, tileVars, connVars, now,
                   transportVars, baseVars>>

\* with self.screenshot_lock:
TwAcquire ==
    /\ impl = "twisted"
    /\ cap_pc = "tw_lock"
    /\ screenshot_lock = NoThread
    /\ screenshot_lock' = Reactor
    /\ cap_pc' = "tw_flag"
    /\ UNCHANGED <<last_screenshot_time, is_processing_screenshot,
                   cap_time, cap_mode, cap_raised, captures, last_image, timers>>
    /\ TwUnchanged

\* if self.is_processing_screenshot: callLater(0.001, self.sendScreenshot); return
TwFlag ==
    /\ impl = "twisted"
    /\ cap_pc = "tw_flag"
    /\ IF is_processing_screenshot
       THEN /\ timers' = timers + 1
            /\ cap_pc' = "tw_return"
       ELSE /\ UNCHANGED timers
            /\ cap_pc' = "tw_interval"
    /\ UNCHANGED <<last_screenshot_time, screenshot_lock, is_processing_screenshot,
                   cap_time, cap_mode, cap_raised, captures, last_image>>
    /\ TwUnchanged

\* if current_time - self.last_screenshot_time >= self.screenshot_interval:
TwInterval ==
    /\ impl = "twisted"
    /\ cap_pc = "tw_interval"
    /\ IF ElapsedAtLeast(cap_time, last_screenshot_time, screenshot_interval)
       THEN /\ is_processing_screenshot' = TRUE
            /\ last_screenshot_time' = cap_time
            /\ captures' = Started(captures, cap_time, applied)
            /\ cap_pc' = "tw_select"
       ELSE /\ UNCHANGED <<is_processing_screenshot, last_screenshot_time, captures>>
            /\ cap_pc' = "tw_unlock"
    /\ UNCHANGED <<screenshot_lock, cap_time, cap_mode, cap_raised, last_image, timers>>
    /\ TwUnchanged

\* the method sendScreenshot picks
TwSelectMode(cfg) ==
    IF Get(cfg, VAR_USE_NUMPY, VAR_USE_NUMPY_DEFAULT) # 0 THEN "numpy" ELSE "jpeg"

TwSelect ==
    /\ impl = "twisted"
    /\ cap_pc = "tw_select"
    /\ cap_mode' = TwSelectMode(config)
    /\ cap_pc' = "tw_encode"
    /\ UNCHANGED <<last_screenshot_time, screenshot_lock, is_processing_screenshot,
                   cap_time, cap_raised, captures, last_image, timers>>
    /\ TwUnchanged

\* sendScreenshotNumpy() or sendScreenshotJPEG(); ok is FALSE when the capture
\* raises
TwEncode(frame, ok) ==
    /\ impl = "twisted"
    /\ cap_pc = "tw_encode"
    /\ cap_pc' = "tw_clear"
    /\ cap_raised' = ~ok
    /\ LET msgs == IF ~ok THEN <<>>
                   ELSE IF cap_mode = "numpy" THEN <<ScreenshotNumpy(frame)>>
                   ELSE <<ScreenshotJPEG(frame, last_image)>>
       IN captures' = Finished(captures, IF ok THEN cap_mode ELSE "failed",
                               IF ok THEN frame ELSE {}, msgs)
    /\ last_image' = IF ok /\ cap_mode = "jpeg" THEN Attr(frame) ELSE last_image
    /\ UNCHANGED <<last_screenshot_time, screenshot_lock, is_processing_screenshot,
                   cap_time, cap_mode, timers>>
    /\ TwUnchanged

\* finally: self.is_processing_screenshot = False
TwClear ==
    /\ impl = "twisted"
    /\ cap_pc = "tw_clear"
    /\ is_processing_screenshot' = FALSE
    /\ cap_pc' = "tw_unlock"
    /\ UNCHANGED <<last_screenshot_time, screenshot_lock, cap_time, cap_mode,
                   cap_raised, captures, last_image, timers>>
    /\ TwUnchanged

\* leaving the with block: by the early return, by an exception (which ends
\* the callback), or to the statements after it
TwUnlock ==
    /\ impl = "twisted"
    /\ cap_pc \in {"tw_unlock", "tw_return"}
    /\ screenshot_lock' = NoThread
    /\ cap_raised' = FALSE
    /\ cap_pc' = IF cap_pc = "tw_return" \/ cap_raised THEN "idle" ELSE "tw_resched"
    /\ UNCHANGED <<last_screenshot_time, is_processing_screenshot, cap_time, cap_mode,
                   captures, last_image, timers>>
    /\ TwUnchanged

\* reactor.callLater(next_delay, self.sendScreenshot)
TwReschedule ==
    /\ impl = "twisted"
    /\ cap_pc = "tw_resched"
    /\ timers' = timers + 1
    /\ cap_pc' = "idle"
    /\ UNCHANGED <<last_screenshot_time, screenshot_lock, is_processing_screenshot,
                   cap_time, cap_mode, cap_raised, captures, last_image>>
    /\ TwUnchanged

\* connectionLost(reason), a callback of the reactor like the others:
\* self.commands.shouldRun = False
TwConnectionLost ==
    /\ impl = "twisted"
    /\ cap_pc = "idle"
    /\ shouldRun
    /\ shouldRun' = FALSE
    /\ UNCHANGED <<config, screenshot_interval, current_quality_offset, fps_history,
                   commands>>
    /\ UNCHANGED <<tileVars, captureVars, connVars, now, applied, transportVars, baseVars>>

(***************************************************************************)
(* Initial states                                                          *)
(***************************************************************************)
\* ProtocolBase.__init__
InitBase ==
    /\ receiveBuffer = <<>>
    /\ receiveMessageLength = -1
    /\ delivered = <<>>
    /\ buffer = <<>>
    /\ flush_scheduled = FALSE
    /\ flush_immediate_calls = 0
    /\ transport_written = <<>>
    /\ framed = <<>>

\* RawControlleeProtocol.__init__ / ControlleeProtocol.__init__
InitConfig ==
    /\ screenshot_interval = Recip(VAR_FPS_DEFAULT)
    /\ current_quality_offset = 0
    /\ fps_history = <<>>
    /\ commands = <<>>
    /\ shouldRun = TRUE
    /\ InitBase

\* __init__ assigns none of the tile attributes
InitTilesMissing ==
    /\ tile_size = Unset
    /\ last_tiles = Unset
    /\ tile_timestamps = Unset
    /\ static_tile_threshold = Unset

InitCapture ==
    /\ last_screenshot_time = 0
    /\ screenshot_lock = NoThread
    /\ is_processing_screenshot = FALSE
    /\ cap_time = 0
    /\ cap_mode = "none"
    /\ cap_raised = FALSE
    /\ captures = <<NoCapture, NoCapture>>
    /\ last_image = Unset

\* the accept loop has accepted the connection of the model and ended
Accepted ==
    /\ accept_pc = "exited"
    /\ client_protocols = 1
    /\ backlog = 0

InitWorkers ==
    /\ role \in {"server", "client"}
    /\ factory_running = FALSE
    /\ socket_closed = FALSE
    /\ peer_closed = FALSE
    /\ stop_called = FALSE
    /\ recv_state = "running"
    /\ send_state = "running"
    /\ now = StartTime
    /\ applied = NoMessage
    /\ tile_cache = EmptyDict
    /\ image_size = Unset
    /\ displayed = Unset
    /\ last_received_time = StartTime
    /\ ctl_send_queue = <<>>
    /\ ctl_wire = <<>>
    /\ last_mouse_send_time = 0
    /\ issued = <<>>

InitConn ==
    /\ Accepted
    /\ InitWorkers

\* the monitor of the fine-grained specifications
NarrowScreen == screen_width = ScreenBlocksX * BlockPx

\* RawSocketProtocol.__init__, and the handler the protocol class sets
InitBuffers ==
    /\ message_handler = TRUE
    /\ send_queue = <<>>
    /\ wire = <<>>
    /\ receive_buffer = <<>>
    /\ handled = <<>>
    /\ written = <<>>
    /\ offered = <<>>

InitTransport ==
    /\ running = TRUE
    /\ InitBuffers

\* a connected RawControlleeProtocol: running set and the three workers started
InitRaw ==
    /\ impl = "raw"
    /\ config = DefaultConfig
    /\ cap_pc = "loop"
    /\ timers = 0

\* a ControlleeProtocol: its own config keys, the first sendScreenshot scheduled
InitTwisted ==
    /\ impl = "twisted"
    /\ \E use_delta \in {0, 1} : config = TwistedConfig(use_delta)
    /\ cap_pc = "idle"
    /\ timers = 1

InitControllee ==
    /\ NarrowScreen
    /\ controller = "none"
    /\ InitTransport
    /\ InitRaw \/ InitTwisted
    /\ InitConfig
    /\ InitTilesMissing
    /\ InitCapture
    /\ InitConn

InitFraming ==
    /\ NarrowScreen
    /\ controller = "none"
    /\ InitTransport
    /\ InitRaw
    /\ InitConfig
    /\ InitTilesMissing
    /\ InitCapture
    /\ InitConn
    /\ role = "client"

(***************************************************************************)
(* The controllee and its connection                                       *)
(***************************************************************************)
\* the messages of the controller that decide the capture mode
Messages ==
    {COMMAND_SEND_SCREENSHOT, SetVar(VAR_USE_NUMPY, 1), SetVar(VAR_SCALE, 50)}

CaptureWorkerStep ==
    \/ CapLoop
    \/ CapSample
    \/ CapCheck
    \/ CapAcquire
    \/ CapFlag
    \/ CapSelect
    \/ \E frame \in Frames, grab_ok \in BOOLEAN : CapEncode(frame, grab_ok)
    \/ CapClear
    \/ CapUnlock

ReactorStep ==
    \/ TwTimer
    \/ TwAcquire
    \/ TwFlag
    \/ TwInterval
    \/ TwSelect
    \/ \E frame \in Frames, ok \in BOOLEAN : TwEncode(frame, ok)
    \/ TwClear
    \/ TwUnlock
    \/ TwReschedule

Next ==
    \/ CaptureWorkerStep
    \/ ReactorStep
    \/ \E msg \in Messages : RecvMessage(msg)
    \/ \E msg \in Messages : TwMessageReceived(msg)
    \/ RecvExit
    \/ \E sent \in BOOLEAN : SendMessage(sent)
    \/ PeerClose
    \/ Stop
    \/ Tick

Spec == InitControllee /\ [][Next]_vars

\* the outbound side of a Twisted protocol
NextOutbound ==
    \/ \E length \in PayloadLengths : writeMessage(length)
    \/ \E ok \in BOOLEAN : flush_immediate(ok)
    \/ \E ok \in BOOLEAN : flush(ok)

\* a Twisted controllee as constructed
InitOutbound == InitControllee /\ impl = "twisted"

SpecOutbound == InitOutbound /\ [][NextOutbound]_vars

\* the Twisted controllee and the loss of its connection
InitSession == InitControllee /\ impl = "twisted"

NextSession ==
    \/ ReactorStep
    \/ \E msg \in Messages : TwMessageReceived(msg)
    \/ TwConnectionLost
    \/ Tick

SpecSession == InitSession /\ [][NextSession]_vars

\* the threads keep being scheduled: a worker that can take a step takes one
Fairness ==
    /\ WF_vars(CaptureWorkerStep)
    /\ WF_vars(ReactorStep)
    /\ WF_vars(RecvExit)
    /\ WF_vars(\E sent \in BOOLEAN : SendMessage(sent))

FairSpec == InitControllee /\ [][Next]_vars /\ Fairness

(***************************************************************************)
(* The controllee under configuration writes                               *)
(***************************************************************************)
\* values a SET_VAR for fps carries: valid ones, zero and a negative one
FpsValues == {30, 60, 0, -1}

\* a key no code of the controllee reads
UnknownKey == "wobble"

ConfigMessages ==
    {SetVar(VAR_FPS, v) : v \in FpsValues} \cup {SetVar(UnknownKey, v) : v \in {7, 30}}

NextConfig ==
    \/ CaptureWorkerStep
    \/ ReactorStep
    \/ \E msg \in ConfigMessages : RecvMessage(msg)
    \/ \E msg \in ConfigMessages : TwMessageReceived(msg)
    \/ Tick

SpecConfig == InitControllee /\ [][NextConfig]_vars

(***************************************************************************)
(* The raw controllee with its tile attributes assigned.  __init__ assigns *)
(* none of them; the specification gives the initial tile size (64) and    *)
(* an empty tile cache.                                                    *)
(***************************************************************************)
InitialTileSize == 64

\* values of static_tile_threshold, in seconds: below and above the resync age
Thresholds == {5, 60}

InitTiles ==
    /\ tile_size = Attr(InitialTileSize)
    /\ last_tiles = Attr(EmptyDict)
    /\ tile_timestamps = Attr(EmptyDict)
    /\ \E seconds \in Thresholds : static_tile_threshold = Attr(seconds * TicksPerSecond)

InitTiledControllee ==
    /\ InitTransport
    /\ InitRaw
    /\ InitConfig
    /\ InitTiles
    /\ InitCapture
    /\ InitConn

InitTiled ==
    /\ NarrowScreen
    /\ controller = "none"
    /\ InitTiledControllee

\* the fps writes of a controller
TiledMessages == {SetVar(VAR_FPS, v) : v \in {30, 60}}

NextTiled ==
    \/ CaptureWorkerStep
    \/ \E msg \in TiledMessages : RecvMessage(msg)
    \/ \E sent \in BOOLEAN : SendMessage(sent)
    \/ Tick

SpecTiled == InitTiled /\ [][NextTiled]_vars

\* the same controllee under fps writes struct.pack('<III', ...) accepts and
\* one it rejects
CacheMessages == {SetVar(VAR_FPS, v) : v \in {60, -1}}

NextCache ==
    \/ CaptureWorkerStep
    \/ \E msg \in CacheMessages : RecvMessage(msg)
    \/ Tick

SpecCache == InitTiled /\ [][NextCache]_vars

(***************************************************************************)
(* The same controllee in front of a wide screen, under fps writes and     *)
(* feedback: the quality of its TILES updates.  The updates stay on the    *)
(* send queue.                                                             *)
(***************************************************************************)
InitQuality ==
    /\ controller = "none"
    /\ screen_width = WideBlocksX * BlockPx
    /\ InitTiledControllee
    /\ role = "client"
    /\ static_tile_threshold = Attr(60 * TicksPerSecond)

QualityFeedbacks == {NetFeedback(-10, 200), NetFeedback(5, 600)}

QualityMessages == {SetVar(VAR_FPS, v) : v \in {30, 60}}

NextQuality ==
    \/ CaptureWorkerStep
    \/ \E msg \in QualityMessages : RecvMessage(msg)
    \/ \E msg \in QualityFeedbacks :
          Len(fps_history) < MaxQualityFeedbacks /\ RecvMessage(msg)
    \/ Tick

SpecQuality == InitQuality /\ [][NextQuality]_vars

(***************************************************************************)
(* The receive worker of the raw controllee under NET_FEEDBACK messages,   *)
(* with the tile attributes as __init__ leaves them and as assigned        *)
(***************************************************************************)
InitFeedback ==
    /\ controller = "none"
    /\ NarrowScreen
    /\ InitTransport
    /\ InitRaw
    /\ InitConfig
    /\ InitTilesMissing \/ InitTiles
    /\ InitCapture
    /\ InitConn
    /\ role = "client"
    /\ static_tile_threshold \in {Unset, Attr(60 * TicksPerSecond)}

\* adjustments within and beyond [-50, 50]; reported fps of 20.0 and 60.0
FeedbackMessages ==
    {NetFeedback(-10, 200), NetFeedback(0, 200), NetFeedback(-60, 200),
     NetFeedback(5, 600), NetFeedback(70, 600)}

NextFeedback == \E msg \in FeedbackMessages : RecvMessage(msg)

SpecFeedback == InitFeedback /\ [][NextFeedback]_vars

(***************************************************************************)
(* The same controllee over a long time: the clock advances in steps of    *)
(* ElapseSeconds while the capture worker keeps capturing                  *)
(***************************************************************************)
Elapse ==
    /\ now < StartTime + MaxElapses * ElapseSeconds * TicksPerSecond
    /\ now' = now + ElapseSeconds * TicksPerSecond
    /\ UNCHANGED <<configVars, baseVars, tileVars, captureVars, connVars, applied, transportVars>>

NextResync ==
    \/ CaptureWorkerStep
    \/ \E sent \in BOOLEAN : SendMessage(sent)
    \/ Elapse

SpecResync == InitTiled /\ [][NextResync]_vars

(***************************************************************************)
(* The controllers: RawControllerProtocol (raw_protocols.py) and           *)
(* PyQt5ControllerProtocol (pyqt5_controller.py)                           *)
(***************************************************************************)
\* the integers _process_tiles unpacks as the header: '<II' and '<III'
RawHeaderInts == 2

PyQt5HeaderInts == 3

\* bytes of a packed integer, and of a tile header ('<IIII')
IntBytes == 4

TileHeaderBytes == 16

\* the image size RawControllerProtocol assumes
DefaultImageSize == <<1920, 1080>>

\* the decoder (PIL.Image.open, QPixmap.loadFromData) finds an encoded image
\* only where the data starts with one
Decodes(data) == "body" \in DOMAIN data /\ data.ints = <<>>

\* the loop of _process_tiles on the bytes after b'TILES': header_ints
\* integers are taken as the header; a tile needs sixteen more bytes, and the
\* rest of the message is its image, which decodes only when the encoded
\* image starts right there
ProcessTiles(cache, data, header_ints) ==
    LET rest == SubSeq(data.ints, header_ints + 1, Len(data.ints))
    IN IF /\ Len(data.ints) >= header_ints
          /\ data.ints[1] > 0
          /\ IntBytes * Len(rest) = TileHeaderBytes
          /\ "body" \in DOMAIN data
       THEN Put(cache, <<rest[1], rest[2]>>,
                [pixels |-> data.body.pixels, w |-> rest[3], h |-> rest[4]])
       ELSE cache

\* the black canvas with the cached tiles that fit pasted at their origins
Reconstruct(cache, size) ==
    [origin \in {o \in DOMAIN cache : /\ o[1] + cache[o].w <= size[1]
                                       /\ o[2] + cache[o].h <= size[2]}
        |-> cache[origin].pixels]

\* image_size as PyQt5ControllerProtocol estimates it from its cache
EstimatedSize(cache) ==
    LET Right  == {o[1] + cache[o].w : o \in DOMAIN cache}
        Bottom == {o[2] + cache[o].h : o \in DOMAIN cache}
    IN <<CHOOSE r \in Right : \A q \in Right : q <= r,
         CHOOSE b \in Bottom : \A q \in Bottom : q <= b>>

\* RawControllerProtocol.message_received(data): <<tile_cache, image_size, displayed>>
RawControllerReceived(data) ==
    IF data.tag = "TILES"
    THEN LET cache == ProcessTiles(tile_cache, data, RawHeaderInts)
             size  == IF cache # tile_cache /\ image_size = Unset
                      THEN Attr(DefaultImageSize) ELSE image_size
         IN <<cache, size,
              IF cache # EmptyDict /\ size # Unset
              THEN Attr(Reconstruct(cache, Val(size))) ELSE displayed>>
    ELSE \* NO_CHANGE: pass; anything else: self.process_jpeg_data, which the
         \* class does not have (AttributeError, caught)
         <<tile_cache, image_size, displayed>>

\* PyQt5ControllerProtocol.update_display(data): <<tile_cache, image_size, displayed>>
PyQt5ControllerReceived(data) ==
    IF data.tag = "NUMPY"
    THEN <<tile_cache, image_size, Attr([origin \in {<<0, 0>>} |-> data.pixels])>>
    ELSE IF data.tag = "TILES"
    THEN LET cache == ProcessTiles(tile_cache, data, PyQt5HeaderInts)
             size  == IF cache # tile_cache /\ image_size = Unset
                      THEN Attr(EstimatedSize(cache)) ELSE image_size
         IN IF cache # EmptyDict /\ size # Unset
            THEN <<EmptyDict, size, Attr(Reconstruct(cache, Val(size)))>>
            ELSE <<cache, size, displayed>>
    ELSE IF data.tag = "NO_CHANGE"
    THEN <<tile_cache, image_size, displayed>>
    ELSE \* process_jpeg_data: the full image branch
         IF Decodes(data)
         THEN <<tile_cache, image_size, Attr([origin \in {<<0, 0>>} |-> data.body.pixels])>>
         ELSE <<tile_cache, image_size, displayed>>

\* the target the controller's fps control shows: it is left at its default
TargetFps == VAR_FPS_DEFAULT

\* f"{num / den:.1f}" read back as tenths: the nearest tenth, ties to even
FormatTenths(num, den) ==
    LET whole == (10 * num) \div den
        rest  == (10 * num) % den
    IN IF 2 * rest > den \/ (2 * rest = den /\ whole % 2 = 1) THEN whole + 1 ELSE whole

\* the adjustment lowering the quality by 5 where the code lowers it by 10
QualityAdjustmentMild(num, den, target_fps) ==
    IF 10 * num < 8 * target_fps * den THEN -5
    ELSE IF 10 * num > 11 * target_fps * den THEN 5
    ELSE 0

\* the adjustment of _send_network_feedback for current_fps = num / den
QualityAdjustment(num, den, target_fps) ==
    IF 10 * num < 8 * target_fps * den THEN -10
    ELSE IF 10 * num > 11 * target_fps * den THEN 5
    ELSE 0

\* the message _send_network_feedback(num / den) writes
SendNetworkFeedback(num, den) ==
    NetFeedback(QualityAdjustment(num, den, TargetFps), FormatTenths(num, den))

\* RawControllerProtocol.message_received: the payload goes to
\* self.process_jpeg_data, which the class does not define
RawPayloadRaises(data) == data.tag \notin {"NO_CHANGE", "TILES"}

\* the messages RawControllerProtocol.message_received writes at current_time
RawControllerWrites(data, current_time) ==
    IF RawPayloadRaises(data) \/ current_time = last_received_time
    THEN \* AttributeError or ZeroDivisionError: the except requests the next frame
         <<COMMAND_SEND_SCREENSHOT>>
    ELSE <<SendNetworkFeedback(TicksPerSecond, current_time - last_received_time),
           COMMAND_SEND_SCREENSHOT>>

\* the messages PyQt5ControllerProtocol.message_received writes at current_time
PyQt5ControllerWrites(data, current_time) ==
    IF last_received_time > 0 /\ current_time - last_received_time > 0
    THEN <<SendNetworkFeedback(TicksPerSecond, current_time - last_received_time),
           COMMAND_SEND_SCREENSHOT>>
    ELSE <<COMMAND_SEND_SCREENSHOT>>

\* write_message putting the message at the front of the queue
ControllerEnqueueFront(q, data) == <<data>> \o q

\* write_message(data) of the controller's protocol, which is running
ControllerEnqueue(q, data) == Append(q, data)

RECURSIVE ControllerWriteAll(_, _)
ControllerWriteAll(q, msgs) ==
    IF msgs = <<>> THEN q
    ELSE ControllerWriteAll(ControllerEnqueue(q, Head(msgs)), Tail(msgs))

\* message_received(data) of the controller, with what it leaves alone
ControllerMessageReceived(data) ==
    /\ LET r == IF controller = "raw" THEN RawControllerReceived(data)
                ELSE PyQt5ControllerReceived(data)
       IN /\ tile_cache' = r[1]
          /\ image_size' = r[2]
          /\ displayed' = r[3]
    /\ ctl_send_queue' =
           ControllerWriteAll(ctl_send_queue,
                              IF controller = "raw" THEN RawControllerWrites(data, now)
                              ELSE PyQt5ControllerWrites(data, now))
    /\ last_received_time' =
           IF controller = "raw" /\ (RawPayloadRaises(data) \/ now = last_received_time)
           THEN last_received_time ELSE now
    /\ UNCHANGED <<last_mouse_send_time, issued, ctl_wire>>
    /\ UNCHANGED <<impl, screen_width, serverVars, role, factory_running, socket_closed, peer_closed, stop_called,
                   recv_state, send_state, controller>>
    /\ UNCHANGED <<running, message_handler, send_queue, receive_buffer, handled, written, offered>>
    /\ UNCHANGED <<configVars, baseVars, tileVars, captureVars, now, applied>>

\* the receive worker of the controller handles the next message of the controllee
ControllerReceive ==
    /\ controller # "none"
    /\ wire # <<>>
    /\ ControllerMessageReceived(Head(wire))
    /\ wire' = Tail(wire)

\* the receive worker of the controller handles a payload the connection delivers
ControllerGets(data) ==
    /\ controller # "none"
    /\ wire = <<>>
    /\ ControllerMessageReceived(data)
    /\ UNCHANGED wire

\* one iteration of the controller's _send_worker: sendall of the next message
ControllerSend ==
    /\ controller # "none"
    /\ ctl_send_queue # <<>>
    /\ ctl_wire' = Append(ctl_wire, Head(ctl_send_queue))
    /\ ctl_send_queue' = Tail(ctl_send_queue)
    /\ UNCHANGED <<controller, tile_cache, image_size, displayed, last_received_time,
                   last_mouse_send_time, issued>>
    /\ UNCHANGED <<impl, screen_width, serverVars, role, factory_running, socket_closed, peer_closed,
                   stop_called, recv_state, send_state>>
    /\ UNCHANGED <<transportVars, configVars, baseVars, tileVars, captureVars, now, applied>>

\* the controllee's receive worker handles the next message of the controller
RecvFromController ==
    /\ impl = "raw"
    /\ recv_state = "running"
    /\ running
    /\ ~socket_closed
    /\ ~peer_closed
    /\ ctl_wire # <<>>
    /\ MessageReceived(Head(ctl_wire))
    /\ ctl_wire' = Tail(ctl_wire)
    /\ UNCHANGED <<controller, tile_cache, image_size, displayed, last_received_time,
                   ctl_send_queue, last_mouse_send_time, issued>>
    /\ UNCHANGED <<impl, screen_width, serverVars, role, factory_running, socket_closed, peer_closed,
                   stop_called, recv_state, send_state>>
    /\ UNCHANGED <<now, transportVars>>

InitPair ==
    /\ NarrowScreen
    /\ controller \in {"raw", "pyqt5"}
    /\ InitTiledControllee

NextPair ==
    \/ CaptureWorkerStep
    \/ \E sent \in BOOLEAN : SendMessage(sent)
    \/ ControllerReceive
    \/ Tick

SpecPair == InitPair /\ [][NextPair]_vars

NextFraming ==
    \/ \E data \in Payloads : WriteMessage(data)
    \/ SendWorker
    \/ ReceiveWorker

SpecFraming == InitFraming /\ [][NextFraming]_vars

\* one stream of framed messages read by both framers, chunk by chunk
NextFramers ==
    \/ \E data \in Payloads : WriteMessage(data)
    \/ SendWorker
    \/ ReceiveBoth

SpecFramers == InitFraming /\ [][NextFramers]_vars

(***************************************************************************)
(* Claims about the framing (SpecFraming)                                  *)
(***************************************************************************)
IsPrefix(s, t) == Len(s) <= Len(t) /\ Take(t, Len(s)) = s

\* C1: the payloads handed to the receiver's handler are, in order, the
\* payloads write_message accepted: at every moment a prefix of them, and all
\* of them (with nothing left in the receive buffer) once the queue and the
\* stream are drained, however recv splits the stream.
C1_FramingRoundTrip ==
    /\ IsPrefix(handled, written)
    /\ (send_queue = <<>> /\ wire = <<>>) =>
            (handled = written /\ receive_buffer = <<>>)

\* two payloads, the first of length zero, delivered after the stream drained
C1_Witness ==
    /\ Len(written) = 2
    /\ written[1] = <<>>
    /\ written[2] # <<>>
    /\ handled = written
    /\ wire = <<>>

\* C22: a message the handler raises on leaves the receive worker running,
\* and the messages after it are still handed to the handler, in order: once
\* the stream is drained every payload written has been handled.
C22_DecodeErrorsNonFatal ==
    (\E i \in DOMAIN handled : HandlerRaises(handled[i]))
        => /\ recv_state = "running"
           /\ IsPrefix(handled, written)
           /\ (send_queue = <<>> /\ wire = <<>>) => Len(handled) = Len(written)

\* the handler raised on the first message and was handed the second
C22_Witness ==
    /\ Len(handled) = 2
    /\ HandlerRaises(handled[1])
    /\ recv_state = "running"
    /\ wire = <<>>

\* C23: a length prefix equal to zero is fatal to the connection: no message
\* is handed to the handler for it, so no empty payload is ever handled.
C23_FramingErrorFatal ==
    \A i \in DOMAIN handled : handled[i] # <<>>

\* the 8-byte length of each payload followed by the payload, one after another
RECURSIVE FramesOf(_)
FramesOf(msgs) ==
    IF msgs = <<>> THEN <<>>
    ELSE PackBytes(Len(Head(msgs)), 8) \o Head(msgs) \o FramesOf(Tail(msgs))

\* C24: whatever the order of the calls of write_message, the bytes put on
\* the socket are the frames of the accepted payloads one after another,
\* each an 8-byte length followed by its payload, and only a step of the
\* send worker adds bytes to the stream.
C24_SingleWriter ==
    /\ [](FramesOf(handled) \o receive_buffer \o wire \o FramesOf(send_queue) = FramesOf(written))
    /\ [][Len(wire') > Len(wire)
            => (/\ send_queue # <<>>
                /\ send_queue' = Tail(send_queue)
                /\ wire' = wire \o FramesOf(<<Head(send_queue)>>))]_vars

\* two payloads written, the frame of the first read in part, the second
\* frame whole on the stream
C24_Witness ==
    /\ Len(written) = 2
    /\ written[1] # written[2]
    /\ send_queue = <<>>
    /\ handled = <<>>
    /\ receive_buffer # <<>>
    /\ Len(wire) > HeaderSize

(***************************************************************************)
(* RawSocketServer._accept_connections and the connection it accepts (TCP) *)
(***************************************************************************)
\* the accept loop going on to the next accept()
AcceptLoopAfterContinue == "accept"

\* break  # Only handle one client for simplicity
AcceptLoopAfter == "exited"

FramingUnchanged ==
    /\ UNCHANGED <<message_handler, send_queue, wire, receive_buffer, handled, written,
                   offered>>
    /\ UNCHANGED <<impl, screen_width, role, factory_running, peer_closed, stop_called,
                   controllerVars>>
    /\ UNCHANGED <<configVars, baseVars, tileVars, captureVars, now, applied>>

\* a peer connects to the listening socket
PeerConnect ==
    /\ backlog + client_protocols < MaxPeers
    /\ backlog' = backlog + 1
    /\ UNCHANGED <<accept_pc, client_protocols, running, socket_closed, recv_state, send_state>>
    /\ FramingUnchanged

\* one iteration of the while True of _accept_connections: accept() returns,
\* the protocol instance is created and set running, its workers start
Accept ==
    /\ accept_pc = "accept"
    /\ backlog > 0
    /\ backlog' = backlog - 1
    /\ client_protocols' = client_protocols + 1
    /\ running' = TRUE
    /\ recv_state' = "running"
    /\ send_state' = "running"
    /\ accept_pc' = AcceptLoopAfter
    /\ UNCHANGED socket_closed
    /\ FramingUnchanged

\* RawSocketProtocol.stop() on the protocol instance (on_close_clicked)
ProtocolStop ==
    /\ client_protocols > 0
    /\ running
    /\ running' = FALSE
    /\ socket_closed' = TRUE
    /\ UNCHANGED <<serverVars, recv_state, send_state>>
    /\ FramingUnchanged

\* a listening RawSocketServer: no connection yet
InitAccept ==
    /\ NarrowScreen
    /\ controller = "none"
    /\ running = FALSE
    /\ InitBuffers
    /\ InitRaw
    /\ InitConfig
    /\ InitTilesMissing
    /\ InitCapture
    /\ InitWorkers
    /\ role = "server"
    /\ accept_pc = "accept"
    /\ client_protocols = 0
    /\ backlog = 0

NextAccept ==
    \/ PeerConnect
    \/ Accept
    \/ \E data \in Payloads : client_protocols > 0 /\ WriteMessage(data)
    \/ SendWorker
    \/ ReceiveWorker
    \/ client_protocols > 0 /\ PeerClose
    \/ ProtocolStop

SpecAccept == InitAccept /\ [][NextAccept]_vars

\* C27: the server creates at most one protocol instance: once it has
\* created one its accept loop has ended, and no connection is accepted
\* afterwards, whether or not the first peer has disconnected.
C27_OnePeerAtATime ==
    /\ client_protocols <= 1
    /\ client_protocols = 1 => accept_pc = "exited"

\* the first peer gone, a second one connected and waiting
C27_Witness ==
    /\ client_protocols = 1
    /\ peer_closed
    /\ backlog > 0

\* C25 as stated: whatever the state of the protocol object, the payload of
\* a call of write_message is on the send queue when the call returns.
C25_WriteAlwaysQueues ==
    [][offered' # offered => send_queue' = Append(send_queue, offered'[Len(offered')])]_vars

\* C25 as amended: a payload passed to write_message while self.running is
\* True is on the send queue when the call returns, and one passed while it
\* is False is discarded; the only other change of the queue is the send
\* worker taking the oldest payload and writing its frame to the socket.
C25_WriteQueuesWhileRunning ==
    /\ [][offered' # offered
            => send_queue' = IF running THEN Append(send_queue, offered'[Len(offered')])
                             ELSE send_queue]_vars
    /\ [][(offered' = offered /\ send_queue' # send_queue)
            => (/\ send_queue' = Tail(send_queue)
                /\ wire' = wire \o Frame(Head(send_queue)))]_vars

\* a payload queued while running, and one passed after stop() and dropped
C25_Witness ==
    /\ Len(offered) = 2
    /\ Len(written) = 1
    /\ ~running
    /\ handled = written

(***************************************************************************)
(* Claims about the workers of a connection                                *)
(***************************************************************************)
\* the thread that captures: the capture worker, or the reactor
Capturer == IF impl = "raw" THEN CaptureWorker ELSE Reactor

\* a capture-encode-send is in progress
CaptureInProgress ==
    cap_pc \in {"select", "encode", "clear", "tw_select", "tw_encode", "tw_clear"}

\* C2: no two captures overlap: is_processing_screenshot is set exactly while
\* the one capturing thread is between setting and clearing it, and whenever
\* it is set that thread holds screenshot_lock; the flag is set only under
\* the lock.
C2_NoOverlappingCaptures ==
    /\ is_processing_screenshot <=> CaptureInProgress
    /\ is_processing_screenshot => screenshot_lock = Capturer
    /\ cap_pc \in {"flag", "tw_flag", "tw_interval"} => screenshot_lock = Capturer

\* a second capture in progress, for the raw and for the Twisted controllee
C2_Witness ==
    /\ is_processing_screenshot
    /\ cap_pc \in {"encode", "tw_encode"}
    /\ captures[1].mode # "none"

\* C3: once the receive worker of a RawControlleeProtocol has left its loop
\* (peer close or socket error), eventually the send worker and the capture
\* worker have terminated and the running flag is False.
C3_FailureTerminatesWorkers ==
    (impl = "raw" /\ recv_state = "exited")
        ~> (send_state = "exited" /\ cap_pc = "exited" /\ ~running)

\* C4: after stop() on the object get_transport returned, the running flag
\* the workers of the connection observe is False and the connection socket
\* is closed.
C4_StopCancelsWorkers ==
    stop_called => (~running /\ socket_closed)

\* delayed calls of sendScreenshot pending, and the one running
ActiveTimers == timers + (IF cap_pc = "idle" THEN 0 ELSE 1)

\* C21: SEND_SCREENSHOT is only a hint: handling it leaves the number of
\* capture timers at the one the constructor started, and a capture started
\* after it starts no earlier than one capture period after the capture
\* before.
C21_SendScreenshotIsHint ==
    /\ impl = "twisted" => ActiveTimers <= 1
    /\ (/\ captures[1].mode # "none"
        /\ captures[2].mode # "none"
        /\ captures[2].after = COMMAND_SEND_SCREENSHOT)
           => ElapsedAtLeast(captures[2].start, captures[1].start, screenshot_interval)

\* C26: the configuration map is written only while the writer holds the
\* mutex the capture worker reads it under, so it never changes while the
\* capture worker holds screenshot_lock.
C26_ConfigUnderOneMutex ==
    [][screenshot_lock = CaptureWorker => config' = config]_vars

\* C28: after a capture that raised, once the capturing thread is back
\* between captures, is_processing_screenshot is False, screenshot_lock is
\* free, and another capture will be attempted: the capture worker is in its
\* loop, or a call of sendScreenshot is pending.
C28_CaptureFailureRetried ==
    (captures[2].mode = "failed" /\ cap_pc \in {"loop", "idle"})
        => /\ ~is_processing_screenshot
           /\ screenshot_lock = NoThread
           /\ impl = "twisted" => timers > 0

\* a capture starts: the flag goes up
CaptureStarts == ~is_processing_screenshot /\ is_processing_screenshot'

\* C29 as stated: a capture starts only when current_time -
\* last_screenshot_time >= screenshot_interval, with the interval of the
\* moment it starts, and last_screenshot_time becomes its start time.
C29_Pacing ==
    [][CaptureStarts
            => (/\ last_screenshot_time' = cap_time
                /\ ElapsedAtLeast(cap_time, last_screenshot_time, screenshot_interval))]_vars

\* C29: last_screenshot_time becomes the start time of each capture, and a
\* capture starts only when current_time - last_screenshot_time >=
\* screenshot_interval held at its pacing check: the check of
\* _screenshot_loop lets the worker on only then, and neither operand moves
\* between that check and the start; sendScreenshot checks as it starts.
C29_PacingAtCheck ==
    /\ [][CaptureStarts => last_screenshot_time' = cap_time]_vars
    /\ [][(impl = "raw" /\ cap_pc = "check" /\ cap_pc' = "lock")
              => ElapsedAtLeast(cap_time, last_screenshot_time, screenshot_interval)]_vars
    /\ [][(impl = "raw" /\ cap_pc \in {"lock", "flag"} /\ ~CaptureStarts)
              => UNCHANGED <<cap_time, last_screenshot_time>>]_vars
    /\ [][(impl = "raw" /\ CaptureStarts) => cap_pc = "flag"]_vars
    /\ [][(impl = "twisted" /\ CaptureStarts)
              => ElapsedAtLeast(cap_time, last_screenshot_time, screenshot_interval)]_vars

\* a capture of the raw controllee that started less than the interval of
\* its start after the one before it: SET_VAR fps was handled between its
\* pacing check and its start, and no message since
C29_Witness ==
    /\ impl = "raw"
    /\ captures[1].mode # "none"
    /\ captures[2].mode = "started"
    /\ captures[2].after.tag = "SET_VAR"
    /\ captures[2].after.variable = VAR_FPS
    /\ last_screenshot_time = captures[2].start
    /\ ~ElapsedAtLeast(captures[2].start, captures[1].start, screenshot_interval)

\* C35: once connectionLost has been called on the Twisted controllee
\* (shouldRun is False from then on), no capture starts and no call of
\* sendScreenshot is scheduled.
C35_TransportFailureEndsSession ==
    [][(impl = "twisted" /\ ~shouldRun)
          => (~CaptureStarts /\ timers' <= timers)]_vars

\* the bytes of the stream ProtocolBase has read and not delivered: the
\* header it has unpacked, if any, and receiveBuffer
UndeliveredRemainder ==
    (IF receiveMessageLength = -1 THEN <<>> ELSE PackQ(receiveMessageLength))
        \o receiveBuffer

\* C36: reading one stream in the same chunks, ProtocolBase and
\* RawSocketProtocol have passed the same payloads to their handlers and
\* hold the same undelivered remainder.
C36_FramersEquivalent ==
    /\ delivered = handled
    /\ UndeliveredRemainder = receive_buffer

\* runs with neighbours that continue each other merged
RECURSIVE Merged(_)
Merged(runs) ==
    IF Len(runs) < 2 THEN runs
    ELSE LET a == runs[1]
             b == runs[2]
         IN IF a.m = b.m /\ a.hi = b.lo
            THEN Merged(<<[a EXCEPT !.hi = b.hi]>> \o SubSeq(runs, 3, Len(runs)))
            ELSE <<a>> \o Merged(Tail(runs))

\* the frames of the messages of writeMessage, in order
FramedStream == [i \in 1..Len(framed) |-> [m |-> i, lo |-> 0, hi |-> HeaderSize + framed[i]]]

\* C37: the bytes transport.write accepted, followed by the buffer, are the
\* length-framed messages in writeMessage order, whatever the interleaving of
\* writeMessage, flush and flush_immediate and whichever writes raised.
C37_OutboundStreamIntegrity ==
    impl = "twisted" => Merged(transport_written \o buffer) = FramedStream

\* flush has written a 256 KiB prefix of a long message, the rest of it is
\* in the buffer in front of a second message
C37_Witness ==
    /\ impl = "twisted"
    /\ Len(buffer) = 2
    /\ buffer[1].lo = FlushChunk
    /\ transport_written # <<>>

\* C38: at most one delayed call of sendScreenshot is pending in the
\* reactor of the Twisted controllee, however many SEND_SCREENSHOT messages
\* it has received.
C38_BoundedTimerChain == impl = "twisted" => timers <= 1

\* C39: within one capture of the raw controllee the use_numpy, scale and
\* fps the encoding reads are those the mode was selected with: the mode it
\* encodes in is the one the selection gives for the values it reads.
C39_PerCaptureConfigConsistent ==
    [][(impl = "raw" /\ cap_pc = "encode" /\ cap_pc' = "clear")
          => cap_mode = SelectMode(config)]_vars

(***************************************************************************)
(* Claims about the payloads of a capture                                  *)
(***************************************************************************)
\* C6: when two consecutive captures in JPEG mode grabbed identical frames,
\* the second passes exactly NO_CHANGE to write_message.
C6_NoChangeOnIdenticalFrames ==
    (/\ captures[1].mode = "jpeg"
     /\ captures[2].mode = "jpeg"
     /\ captures[1].frame = captures[2].frame)
        => captures[2].emitted = <<NoChange>>

(***************************************************************************)
(* Claims about the configuration (SpecConfig)                             *)
(***************************************************************************)
\* C8 as stated: whatever value v the last write to fps stored, v <= 0
\* included, screenshot_interval equals 1/v.
C8_IntervalFollowsEveryFps ==
    screenshot_interval = Recip(config[VAR_FPS])

\* a step that handles a SET_VAR for the key
Writes(key) ==
    /\ applied'.tag = "SET_VAR"
    /\ applied'.variable = key
    /\ <<config, applied, screenshot_interval>>' # <<config, applied, screenshot_interval>>

\* C8, amended: whenever the last write to fps stored a value v > 0,
\* screenshot_interval equals 1/v; a write of a value v <= 0 is stored and
\* leaves screenshot_interval as it was.
C8_IntervalFollowsPositiveFps ==
    /\ [](config[VAR_FPS] > 0 => screenshot_interval = Recip(config[VAR_FPS]))
    /\ [][(Writes(VAR_FPS) /\ applied'.value <= 0)
            => (/\ config'[VAR_FPS] = applied'.value
                /\ screenshot_interval' = screenshot_interval)]_vars

\* fps 30 written, then fps 0: stored, the interval still that of 30
C8_Witness ==
    /\ config[VAR_FPS] = 0
    /\ applied = SetVar(VAR_FPS, 0)
    /\ screenshot_interval = Recip(30)

\* C10: a SET_VAR for a key that is not a configuration key is stored under
\* that key and changes no other config entry, nor screenshot_interval, the
\* feedback offset, the tile size, the tile cache or the send queue; and
\* handling a SET_VAR that was the last one handled changes none of config,
\* screenshot_interval, the feedback offset and the tile size.
C10_UnknownKeyStoredOnly ==
    /\ [][Writes(UnknownKey)
            => (/\ config' = Put(config, UnknownKey, applied'.value)
                /\ UNCHANGED <<screenshot_interval, current_quality_offset, tileVars,
                               send_queue>>)]_vars
    /\ [][(applied' = applied /\ applied.tag = "SET_VAR")
            => UNCHANGED <<config, screenshot_interval, current_quality_offset,
                           tile_size>>]_vars

\* the unknown key stored after fps 30 was written, the interval that of 30
C10_Witness ==
    /\ applied = SetVar(UnknownKey, 7)
    /\ UnknownKey \in DOMAIN config
    /\ config[UnknownKey] = 7
    /\ config[VAR_FPS] = 30
    /\ screenshot_interval = Recip(30)

(***************************************************************************)
(* Claims about live reconfiguration (SpecTiled)                           *)
(***************************************************************************)
\* the capture started after a SET_VAR for fps was handled, and no message
\* has been handled since
StartedAfterFps(capture) ==
    /\ capture.after.tag = "SET_VAR"
    /\ capture.after.variable = VAR_FPS

MouseSendInterval == <<1, 100>>

\* the key the key events carry
KeyCode == 65

\* mouse_move_event letting every move through
MoveThrottledNever(current_time, last) == FALSE

\* current_time - self.last_mouse_send_time < self.mouse_send_interval
MoveThrottled(current_time, last) == ~ElapsedAtLeast(current_time, last, MouseSendInterval)

\* send_command(command_name, *args) for each command, in order, from an event
RECURSIVE SendCommands(_, _)
SendCommands(q, cmds) ==
    IF cmds = <<>> THEN q
    ELSE SendCommands(ControllerEnqueue(q, NewCommand(Head(cmds))), Tail(cmds))

\* the commands an event handler sends, recorded with the event's kind, its
\* time and the position (or key) the event carried
Issue(cmds, event, at) ==
    /\ Len(issued) + Len(cmds) <= MaxCommands
    /\ ctl_send_queue' = SendCommands(ctl_send_queue, cmds)
    /\ issued' = issued \o [i \in 1..Len(cmds) |->
                                [command |-> cmds[i], time |-> now, event |-> event,
                                 at |-> at]]

InputUnchanged ==
    /\ UNCHANGED <<controller, tile_cache, image_size, displayed, last_received_time,
                   ctl_wire>>
    /\ UNCHANGED <<impl, screen_width, serverVars, role, factory_running, socket_closed, peer_closed,
                   stop_called, recv_state, send_state>>
    /\ UNCHANGED <<transportVars, configVars, baseVars, tileVars, captureVars, now, applied>>

\* mouse_move_event(event)
MouseMove(pos) ==
    /\ controller = "pyqt5"
    /\ IF MoveThrottled(now, last_mouse_send_time)
       THEN UNCHANGED <<ctl_send_queue, issued, last_mouse_send_time>>
       ELSE /\ Issue(<< <<"MoveMouse", pos[1], pos[2]>> >>, "move", pos)
            /\ last_mouse_send_time' = now
    /\ InputUnchanged

\* a button handler sending the MouseInput before the MoveMouse
MouseButtonInputFirst(pos, is_down) ==
    /\ controller # "none"
    /\ Issue(<< <<"MouseInput", TRUE, is_down>>, <<"MoveMouse", pos[1], pos[2]>> >>,
             "button", pos)
    /\ UNCHANGED last_mouse_send_time
    /\ InputUnchanged

\* mouse_press_event / mouse_release_event (on_mouse_down / on_mouse_up,
\* send_mouse_event): MoveMouse with the position, then MouseInput
MouseButton(pos, is_down) ==
    /\ controller # "none"
    /\ Issue(<< <<"MoveMouse", pos[1], pos[2]>>, <<"MouseInput", TRUE, is_down>> >>,
             "button", pos)
    /\ UNCHANGED last_mouse_send_time
    /\ InputUnchanged

\* key_press_event / key_release_event (on_key_down / on_key_up)
KeyEvent(is_down) ==
    /\ controller # "none"
    /\ Issue(<< <<"KeyboardInput", KeyCode, is_down>> >>, "key", <<KeyCode>>)
    /\ UNCHANGED last_mouse_send_time
    /\ InputUnchanged

\* set_value(variable, value)
SetValue(variable, value) ==
    /\ controller # "none"
    /\ ctl_send_queue' = ControllerEnqueue(ctl_send_queue, SetVar(variable, value))
    /\ UNCHANGED <<issued, last_mouse_send_time>>
    /\ InputUnchanged

\* a controller connected to the raw controllee as constructed
InitInput ==
    /\ NarrowScreen
    /\ controller \in {"raw", "pyqt5"}
    /\ InitTransport
    /\ InitRaw
    /\ InitConfig
    /\ InitTilesMissing
    /\ InitCapture
    /\ InitConn
    /\ role = "client"

\* relative positions (get_relative_position) the events carry
Positions == {<<0, 0>>}

\* room for the two messages one event or payload can add
RoomInFlight == Len(ctl_send_queue) + Len(ctl_wire) + 2 <= MaxInFlight

NextInput ==
    \/ \E pos \in Positions : RoomInFlight /\ MouseMove(pos)
    \/ \E pos \in Positions, is_down \in BOOLEAN : RoomInFlight /\ MouseButton(pos, is_down)
    \/ \E is_down \in BOOLEAN : RoomInFlight /\ KeyEvent(is_down)
    \/ RoomInFlight /\ SetValue(VAR_FPS, 30)
    \/ RoomInFlight /\ ControllerGets(NoChange)
    \/ ControllerSend
    \/ RecvFromController
    \/ Tick

SpecInput == InitInput /\ [][NextInput]_vars

(***************************************************************************)
(* Claims about the input events (SpecInput)                               *)
(***************************************************************************)
IsMove(entry) == entry.command[1] = "MoveMouse"

\* C19 as stated: in PyQt5ControllerProtocol any two MoveMouse commands
\* handed to the connection are at least 10 ms apart, whatever events they
\* come from.
C19_MoveMouseThrottle ==
    controller = "pyqt5"
        => \A i, j \in DOMAIN issued :
              (i < j /\ IsMove(issued[i]) /\ IsMove(issued[j]))
                  => ElapsedAtLeast(issued[j].time, issued[i].time, MouseSendInterval)

\* C19 as amended: any two MoveMouse commands that come from pointer-move
\* events are at least 10 ms apart, and a button event sends its MoveMouse
\* followed by its MouseInput however close to other events it is.
C19_PointerMoveThrottle ==
    controller = "pyqt5"
        => /\ \A i, j \in DOMAIN issued :
                (/\ i < j
                 /\ IsMove(issued[i]) /\ issued[i].event = "move"
                 /\ IsMove(issued[j]) /\ issued[j].event = "move")
                    => ElapsedAtLeast(issued[j].time, issued[i].time, MouseSendInterval)
           /\ \A i \in DOMAIN issued :
                (IsMove(issued[i]) /\ issued[i].event = "button")
                    => /\ i + 1 \in DOMAIN issued
                       /\ issued[i + 1].command[1] = "MouseInput"
                       /\ issued[i + 1].time = issued[i].time

\* a pointer move sent, a later one held back, and a button event less than
\* 10 ms after the first
C19_Witness ==
    /\ controller = "pyqt5"
    /\ Len(issued) = 3
    /\ issued[1].event = "move" /\ issued[2].event = "button"
    /\ issued[3].event = "button"
    /\ issued[2].time > issued[1].time
    /\ ~ElapsedAtLeast(issued[2].time, issued[1].time, MouseSendInterval)

IsNewCommand(msg) == msg.tag = "NEW_COMMAND"

\* the command lists of the NEW_COMMAND messages of a queue, in order
CommandsIn(msgs) ==
    LET news == SelectSeq(msgs, IsNewCommand)
    IN [i \in 1..Len(news) |-> news[i].json]

\* C20: the commands handed to addCommand, followed by the commands still
\* on the connection and those still on the controller's queue, are the
\* commands send_command was called with, in order: none is lost,
\* duplicated or overtaken, whatever other messages travel with them.
C20_InputOrdering ==
    commands \o CommandsIn(ctl_wire) \o CommandsIn(ctl_send_queue)
        = [i \in 1..Len(issued) |-> issued[i].command]

\* C40: every MouseInput command sent is the command right after a MoveMouse
\* that the same button event sent with the position of the click, and on
\* the way to the controllee (command queue, connection, controller's
\* queue) the NEW_COMMAND right before each MouseInput is that MoveMouse.
C40_ClickOrdering ==
    LET arriving == commands \o CommandsIn(ctl_wire) \o CommandsIn(ctl_send_queue)
        IsInput(command) == command[1] = "MouseInput"
    IN /\ \A i \in DOMAIN issued :
            (issued[i].event = "button" /\ IsInput(issued[i].command))
                => /\ i > 1
                   /\ issued[i - 1].event = "button"
                   /\ issued[i - 1].time = issued[i].time
                   /\ issued[i - 1].command
                        = <<"MoveMouse", issued[i].at[1], issued[i].at[2]>>
       /\ \A i \in DOMAIN issued :
            (issued[i].event = "button" /\ ~IsInput(issued[i].command))
                => /\ i + 1 \in DOMAIN issued
                   /\ IsInput(issued[i + 1].command)
       /\ \A i \in DOMAIN arriving :
            IsInput(arriving[i])
                => /\ i > 1 /\ i \in DOMAIN issued
                   /\ arriving[i - 1]
                        = <<"MoveMouse", issued[i].at[1], issued[i].at[2]>>

\* a click handed to the command queue with a command of another event,
\* after NET_FEEDBACK and SEND_SCREENSHOT messages went the same way
C40_Witness ==
    /\ Len(commands) >= 3
    /\ \E i \in DOMAIN commands :
            /\ i > 1
            /\ commands[i][1] = "MouseInput"
            /\ commands[i - 1][1] = "MoveMouse"
    /\ \E i \in DOMAIN issued : issued[i].event # "button"
    /\ fps_history # <<>>

\* every command delivered, after a SET_VAR and a NET_FEEDBACK went the same way
C20_Witness ==
    /\ Len(commands) = MaxCommands
    /\ ctl_wire = <<>> /\ ctl_send_queue = <<>>
    /\ config[VAR_FPS] = 30
    /\ fps_history # <<>>
    /\ applied.tag = "NEW_COMMAND"

(***************************************************************************)
(* The feedback loop: frame updates reach the controller LoadGapTicks      *)
(* apart; its feedback travels to the controllee                           *)
(***************************************************************************)
InitLoad ==
    /\ NarrowScreen
    /\ controller \in {"raw", "pyqt5"}
    /\ InitTiledControllee
    /\ role = "client"
    /\ static_tile_threshold = Attr(60 * TicksPerSecond)

LoadPayloads == {NoChange, TilesHeader(1, 10, VAR_FPS_DEFAULT)}

Wait ==
    /\ now + LoadGapTicks <= StartTime + MaxLoadTicks
    /\ now' = now + LoadGapTicks
    /\ UNCHANGED <<configVars, baseVars, tileVars, captureVars, connVars, applied, transportVars>>

NextLoad ==
    \/ \E data \in LoadPayloads :
          /\ Len(ctl_send_queue) + Len(ctl_wire) + 2 <= MaxInFlight
          /\ ControllerGets(data)
    \/ ControllerSend
    \/ RecvFromController
    \/ Wait

SpecLoad == InitLoad /\ [][NextLoad]_vars

(***************************************************************************)
(* The controller decoding the payloads a connection delivers              *)
(***************************************************************************)
\* a tile as _send_changed_tiles describes it in a tile header
TileAt(x, y) == [x |-> x, y |-> y, w |-> BlockPx, h |-> BlockPx]

\* a TILES update in one message: the header integers, the header of its one
\* tile and the encoded tile
TilesUpdate(header, frame, t) ==
    [tag |-> "TILES", ints |-> header \o <<t.x, t.y, t.w, t.h>>,
     body |-> Encode(TileBytes(frame, t.x, t.y, t.w, t.h), 80)]

\* b'NUMPY' + struct.pack('<III', h, w, c) + the pixels
NumpyPayload(frame) ==
    [tag |-> "NUMPY", step |-> 1, raw |-> TRUE, level |-> 1, pixels |-> frame]

\* a full encoded image
ImagePayload(frame) == [tag |-> "", ints |-> <<>>, body |-> Encode(frame, 80)]

\* payloads of every kind: NO_CHANGE, NUMPY, a full image, and TILES updates
\* with the header of three integers and with the header of two
DecodePayloads ==
    {NoChange, NumpyPayload({<<0, 0>>}), ImagePayload({<<2, 0>>}),
     TilesUpdate(<<1, 80, VAR_FPS_DEFAULT>>, {<<0, 0>>}, TileAt(0, 0)),
     TilesUpdate(<<1, 80, VAR_FPS_DEFAULT>>, {<<2, 0>>}, TileAt(2 * BlockPx, 0)),
     TilesUpdate(<<1, 80>>, {<<0, 0>>}, TileAt(0, 0)),
     TilesUpdate(<<1, 80>>, {<<2, 0>>}, TileAt(2 * BlockPx, 0))}

\* the peer's send worker puts a message on the connection
PeerSend(data) ==
    /\ Len(wire) < MaxMsgs
    /\ wire' = Append(wire, data)
    /\ UNCHANGED <<running, message_handler, send_queue, receive_buffer, handled,
                   written, offered>>
    /\ UNCHANGED <<configVars, baseVars, tileVars, captureVars, connVars, now, applied>>

InitDecode == InitLoad

NextDecode ==
    \/ \E data \in DecodePayloads : PeerSend(data)
    \/ (Len(ctl_send_queue) + Len(ctl_wire) + 2 <= MaxInFlight /\ ControllerReceive)
    \/ ControllerSend
    \/ RecvFromController

SpecDecode == InitDecode /\ [][NextDecode]_vars

(***************************************************************************)
(* Claims about the feedback loop (SpecLoad)                               *)
(***************************************************************************)
\* the controllee has handled five feedbacks, each reporting 40.0 fps
FiveFramesAtForty == fps_history = <<400, 400, 400, 400, 400>>

HasTiles(capture) ==
    /\ capture.mode = "jpeg"
    /\ capture.emitted # <<>>
    /\ capture.emitted[1].tag = "TILES"

NumTilesOf(capture) == capture.emitted[1].ints[1]

QualityOf(capture) == capture.emitted[1].ints[2]

FpsTargetOf(capture) == capture.emitted[1].ints[3]

BaseAdjusted(fps_target, num_changed, total_tiles) ==
    LET base_quality == BaseQuality(fps_target)
    IN IF num_changed * 100 < 5 * total_tiles THEN base_quality + 30
       ELSE IF num_changed * 10 < 2 * total_tiles THEN base_quality
       ELSE base_quality - 15

C13_OffsetBounded == current_quality_offset \in -50..50

\* an adjustment of 70 handled, the offset held at the upper limit
C13_Witness ==
    /\ applied = NetFeedback(70, 600)
    /\ current_quality_offset = 50
    /\ Len(fps_history) > 1

\* the tile size the adaptation rule gives for the (updated) history
AdaptedTileSize(T, history) ==
    IF Sum(history) < 300 * Len(history) THEN (IF T \div 2 < 32 THEN 32 ELSE T \div 2)
    ELSE IF Sum(history) > 500 * Len(history) THEN (IF T * 2 > 128 THEN 128 ELSE T * 2)
    ELSE T

C34_DroppedMessageLeavesState ==
    [][MessageRaises(applied')
          => UNCHANGED <<config, screenshot_interval, current_quality_offset,
                         fps_history, tile_size>>]_vars

(***************************************************************************)
(* Claims about the controllee paired with a controller (SpecPair)         *)
(***************************************************************************)
\* the pixel origin of the grid cell
Origin(key) == <<key[1] * Val(tile_size), key[2] * Val(tile_size)>>

ControllerHeaderInts ==
    IF controller = "raw" THEN RawHeaderInts ELSE PyQt5HeaderInts

Largest(S) == CHOOSE m \in S : \A n \in S : n <= m

\* (max(x+w), max(y+h)) over the tiles of a cache
Extent(cache) ==
    <<Largest({o[1] + cache[o].w : o \in DOMAIN cache}),
      Largest({o[2] + cache[o].h : o \in DOMAIN cache})>>

C32_DecodeDispatchTotal ==
    [][(/\ controller # "none"
        /\ wire # <<>>
        /\ Len(wire') < Len(wire))
          => LET data == Head(wire)
             IN /\ data.tag = "NO_CHANGE"
                      => UNCHANGED <<tile_cache, image_size, displayed>>
                /\ data.tag = "NUMPY"
                      => /\ displayed' = Attr([origin \in {<<0, 0>>} |-> data.pixels])
                         /\ UNCHANGED <<tile_cache, image_size>>
                /\ data.tag = "TILES"
                      => (displayed' # displayed
                             => <<data.ints[Len(data.ints) - 3], data.ints[Len(data.ints) - 2]>>
                                    \in DOMAIN Val(displayed'))]_vars

\* the feedback law: the adjustment for a frame gap ticks after the previous
FeedbackLaw(gap) ==
    IF 10 * TicksPerSecond < 8 * 120 * gap THEN -10
    ELSE IF 10 * TicksPerSecond > 11 * 120 * gap THEN 5
    ELSE 0

NumpyCondition(cfg) ==
    /\ Get(cfg, VAR_USE_NUMPY, VAR_USE_NUMPY_DEFAULT) # 0
    /\ Get(cfg, VAR_SCALE, VAR_SCALE_DEFAULT) <= 50
    /\ Get(cfg, VAR_FPS, VAR_FPS_DEFAULT) >= 90

\* C17: whenever a capture of either controllee selects its mode, it selects
\* the raw-pixel (NUMPY) update exactly when use_numpy is true, scale <= 0.5
\* and fps >= 90 at that time, and the tiled/JPEG path otherwise.
C17_ModeSelection ==
    [][(cap_pc \in {"select", "tw_select"} /\ cap_pc' \in {"encode", "tw_encode"})
         => (cap_mode' = "numpy" <=> NumpyCondition(config))]_vars

\* C18: the first capture of a freshly constructed RawControlleeProtocol with
\* the default configuration, once it has grabbed the frame on the tiled
\* path, has enqueued a TILES update whose num_tiles is the number of cells
\* of the grid of tile size 64.
C18_ColdConnectFullTiles ==
    (/\ impl = "raw"
     /\ config = DefaultConfig
     /\ captures[1].mode = "none"
     /\ captures[2].mode = "jpeg")
        => /\ HasTiles(captures[2])
           /\ NumTilesOf(captures[2]) = TotalTiles(InitialTileSize)

=============================================================================
